---- MODULE Spec2Model ----
(***************************************************************************)
(* A model of mcp-diagram-tools (src/src/mcp_diagram_tools/server.py):     *)
(* the parsers (_read_drawio, _read_excalidraw, _read_svg), the generators *)
(* (_create_drawio_xml, _create_excalidraw_json, _create_svg) and the      *)
(* tools diagram_read, diagram_write, diagram_convert, diagram_render,     *)
(* excalidraw_verify and diagram_from_mermaid acting on the files of the   *)
(* project directory, the last two through a child process.                *)
(*                                                                         *)
(* Python values are modelled as follows.  A dict is a function whose      *)
(* DOMAIN is the set of keys present, so dict.get(k, d) is Get(d, k, d).   *)
(* A list is a sequence.  None, where a string is expected, is the value   *)
(* None; None where a dict is expected is the empty function Null.         *)
(* A function that raises returns the record [raise |-> <exception>].      *)
(***************************************************************************)
EXTENDS Integers, Sequences, FiniteSets, TLC

VARIABLES
    fs,      \* the files under PROJECT_DIR: path -> content, or NoFile
    dirs,    \* the directories that exist
    call,    \* the tool call made last, with its arguments
    ret,     \* what that call returned (the JSON object of its result)
    raised,  \* the exception the tool's try block caught, or NoRaise
    ncalls,  \* the number of tool calls made
    child,   \* the child process spawned last: its state (none, running,
             \* exited, killed) and the temporary file it was told to write
    tmp      \* the temporary files that exist, <<suffix, number of the call>>

vars == <<fs, dirs, call, ret, raised, ncalls, child, tmp>>

-----------------------------------------------------------------------------
(* Python values *)

None == "<None>"
Null == <<>>
NoException == "none"

Get(d, k, default) == IF k \in DOMAIN d THEN d[k] ELSE default

\* truth value of a str-or-None value
Truthy(v) == v # None /\ v # ""

\* truth value of a dict-or-None value: None and {} are false
TruthyDict(d) == DOMAIN d # {}

Raise(exc) == [raise |-> exc]
Raises(r) == "raise" \in DOMAIN r
IsError(r) == "error" \in DOMAIN r

RECURSIVE Concat(_)
Concat(ss) == IF ss = <<>> THEN <<>> ELSE Head(ss) \o Concat(Tail(ss))

Range(s) == {s[i] : i \in 1..Len(s)}

\* list(set(...)), server.py 203 and 328: the members of S in a list, each
\* once, in an order the language does not fix
ListOfSet(S) == CHOOSE s \in [1..Cardinality(S) -> S] : Range(s) = S

\* The sequences over S of length at most n
SeqsUpTo(S, n) == UNION {[1..k -> S] : k \in 0..n}

-----------------------------------------------------------------------------
(* File contents.                                                          *)
(*   [k |-> "junk"]                     text that is neither JSON nor XML  *)
(*   [k |-> "json", top |-> "array"]    valid JSON that is not an object   *)
(*   [k |-> "json", top |-> "object", elements |-> <<...>>]                *)
(*   [k |-> "xml", root |-> "mxfile", diagrams |-> <<...>>]                *)
(*   [k |-> "xml", root |-> "mxGraphModel", cells |-> <<...>>]             *)
(*   [k |-> "xml", root |-> "svg", parts |-> <<...>>]                      *)
(*   [k |-> "png"]                                                         *)
(* An element of a JSON elements array is a dict, or JsonScalar for an     *)
(* element that is no object (a number, a string).                         *)

NoFile == [k |-> "absent"]
JunkText == [k |-> "junk"]
JsonScalar == [scalar |-> TRUE]
IsDict(e) == "scalar" \notin DOMAIN e

-----------------------------------------------------------------------------
(* _read_excalidraw *)

IsEdgeElem(elem) == Get(elem, "type", "") \in {"arrow", "line"}

\* server.py 237-246: the edge of an arrow or line element
ExcalidrawEdge(elem) ==
    LET binding_start == Get(elem, "startBinding", Null)
        binding_end == Get(elem, "endBinding", Null)
    IN  [id |-> Get(elem, "id", ""),
         type |-> Get(elem, "type", ""),
         source |-> IF TruthyDict(binding_start)
                    THEN Get(binding_start, "elementId", None) ELSE None,
         target |-> IF TruthyDict(binding_end)
                    THEN Get(binding_end, "elementId", None) ELSE None,
         points |-> Get(elem, "points", <<>>)]

\* server.py 247-272: the nodes an element that is no arrow or line adds
ExcalidrawNode(elem) ==
    IF Get(elem, "type", "") = "text"
    THEN IF Truthy(Get(elem, "text", ""))
         THEN <<[id |-> Get(elem, "id", ""),
                 type |-> "text",
                 text |-> elem.text,
                 x |-> Get(elem, "x", 0),
                 y |-> Get(elem, "y", 0),
                 width |-> Get(elem, "width", 0),
                 height |-> Get(elem, "height", 0)]>>
         ELSE <<>>
    ELSE <<[id |-> Get(elem, "id", ""),
            type |-> Get(elem, "type", ""),
            x |-> Get(elem, "x", 0),
            y |-> Get(elem, "y", 0),
            width |-> Get(elem, "width", 0),
            height |-> Get(elem, "height", 0),
            boundElements |-> Get(elem, "boundElements", <<>>)]>>

ExcalidrawNodes(elements) ==
    Concat([i \in 1..Len(elements) |->
              IF IsEdgeElem(elements[i]) THEN <<>>
              ELSE ExcalidrawNode(elements[i])])

ExcalidrawEdges(elements) ==
    Concat([i \in 1..Len(elements) |->
              IF IsEdgeElem(elements[i]) THEN <<ExcalidrawEdge(elements[i])>>
              ELSE <<>>])

ExcalidrawTexts(elements) ==
    Concat([i \in 1..Len(elements) |->
              IF /\ Get(elements[i], "type", "") = "text"
                 /\ Truthy(Get(elements[i], "text", ""))
              THEN <<elements[i].text>> ELSE <<>>])

\* server.py 216-286
ReadExcalidraw(content) ==
    IF content.k # "json" THEN [error |-> "Invalid JSON"]
    ELSE IF content.top # "object" THEN Raise("AttributeError")
    ELSE LET elements == Get(content, "elements", <<>>)
         IN  IF \E i \in 1..Len(elements) : ~IsDict(elements[i])
             THEN Raise("AttributeError")
             ELSE [format |-> "excalidraw",
                   nodes |-> ExcalidrawNodes(elements),
                   edges |-> ExcalidrawEdges(elements),
                   text_content |-> ExcalidrawTexts(elements),
                   metadata |-> [element_count |-> Len(elements),
                                 node_count |-> Len(ExcalidrawNodes(elements)),
                                 edge_count |-> Len(ExcalidrawEdges(elements))]]

-----------------------------------------------------------------------------
(* draw.io payloads.                                                       *)
(* The text of a <diagram> element is a record                             *)
(*   [layers |-> <<...>>, body |-> b, ws |-> BOOLEAN]                      *)
(* body is what was encoded: [xml |-> TRUE, cells |-> <<...>>] for the XML *)
(* of a graph model, JunkBody for text that is no XML, EmptyBody for the   *)
(* empty string.  layers are the encodings applied to it, outermost    *)
(* first, each of "url" (percent-encoding), "b64" (Base64) and "deflate"   *)
(* (raw deflate); ws says whether whitespace surrounds the text.  NoText   *)
(* is a <diagram> without text.  A cell is a dict of the attributes of an  *)
(* <mxCell>; its key "geo", when present, is the <mxGeometry> child:       *)
(* [attrs |-> the numeric attributes, bad |-> the names of the attributes  *)
(* whose text is no number].                                               *)

NoText == [none |-> TRUE]
NoChild == [none |-> TRUE]
EmptyBody == [xml |-> FALSE, text |-> ""]
JunkBody == [xml |-> FALSE, text |-> "junk"]
HasText(diagram) == "none" \notin DOMAIN diagram.text
HasChild(diagram) == "none" \notin DOMAIN diagram.child

\* str.strip(), server.py 159
Strip(data) == [data EXCEPT !.ws = FALSE]

\* urllib.parse.unquote: undoes a percent-encoding, leaves other text as it is
Unquote(data) ==
    IF data.layers # <<>> /\ Head(data.layers) = "url"
    THEN [data EXCEPT !.layers = Tail(data.layers)] ELSE data

\* base64.b64decode: text that is no Base64 raises (or yields bytes that
\* are no deflate stream, which raise in zlib.decompress)
B64Decode(data) ==
    IF data.layers # <<>> /\ Head(data.layers) = "b64"
    THEN [data EXCEPT !.layers = Tail(data.layers)] ELSE Raise("binascii.Error")

\* zlib.decompress(data, -15)
Inflate(data) ==
    IF data.layers # <<>> /\ Head(data.layers) = "deflate"
    THEN [data EXCEPT !.layers = Tail(data.layers)] ELSE Raise("zlib.error")

\* server.py 74-86
DecodeDrawioData(data) ==
    LET unquoted == Unquote(data)
        decoded == B64Decode(unquoted)
    IN  IF Raises(decoded) THEN data
        ELSE IF Raises(Inflate(decoded)) THEN data
        ELSE Inflate(decoded)

\* ET.fromstring on a payload: the parsed root, or ET.ParseError
XmlFromString(text) ==
    IF text.layers = <<>> /\ text.body.xml THEN text.body
    ELSE Raise("ParseError")

-----------------------------------------------------------------------------
(* _parse_drawio_mxgraphmodel *)

\* float(geometry.get(k, 0)), server.py 122-125
GeoFloat(geometry, k) ==
    IF k \in geometry.bad THEN Raise("ValueError")
    ELSE [v |-> Get(geometry.attrs, k, 0)]

IsRootCell(cell) == Get(cell, "id", "") \in {"0", "1"}

\* server.py 108
IsEdgeCell(cell) ==
    /\ ~IsRootCell(cell)
    /\ Truthy(Get(cell, "source", None))
    /\ Truthy(Get(cell, "target", None))

\* server.py 116
IsNodeCell(cell) ==
    /\ ~IsRootCell(cell)
    /\ ~IsEdgeCell(cell)
    /\ (Truthy(Get(cell, "value", "")) \/ Get(cell, "vertex", None) = "1")

\* server.py 118-126: geo_data
GeoData(cell) ==
    IF "geo" \in DOMAIN cell
    THEN [k \in {"x", "y", "width", "height"} |-> GeoFloat(cell.geo, k).v]
    ELSE Null

\* float() raises on an attribute of the geometry of a node cell
GeoRaises(cell) ==
    /\ IsNodeCell(cell)
    /\ "geo" \in DOMAIN cell
    /\ cell.geo.bad \cap {"x", "y", "width", "height"} # {}

\* server.py 109-115
DrawioEdge(cell) ==
    [id |-> Get(cell, "id", ""),
     source |-> cell.source,
     target |-> cell.target,
     label |-> Get(cell, "value", ""),
     style |-> Get(cell, "style", "")]

\* server.py 128-133
DrawioNode(cell) ==
    [id |-> Get(cell, "id", ""),
     label |-> Get(cell, "value", ""),
     style |-> Get(cell, "style", ""),
     geometry |-> GeoData(cell)]

\* server.py 89-135
ParseDrawioMxgraphmodel(cells) ==
    IF \E i \in 1..Len(cells) : GeoRaises(cells[i]) THEN Raise("ValueError")
    ELSE [nodes |-> Concat([i \in 1..Len(cells) |->
                      IF IsNodeCell(cells[i]) THEN <<DrawioNode(cells[i])>>
                      ELSE <<>>]),
          edges |-> Concat([i \in 1..Len(cells) |->
                      IF IsEdgeCell(cells[i]) THEN <<DrawioEdge(cells[i])>>
                      ELSE <<>>])]

-----------------------------------------------------------------------------
(* _read_drawio *)

Named(parsed, name) ==
    [nodes |-> parsed.nodes, edges |-> parsed.edges, name |-> name]

\* server.py 161-163, 168-170, 175-177 and 181-183: append the parsed model
\* under its name, unless the parse raised
AppendParsed(parsed, name) ==
    IF Raises(parsed) THEN parsed
    ELSE [diagrams |-> <<Named(parsed, name)>>]

\* server.py 166-170 and 173-177: the nested <mxGraphModel> child.
\* The diagrams this <diagram> adds (none or one), or a raise.
ParseChild(diagram) ==
    IF HasChild(diagram)
    THEN AppendParsed(ParseDrawioMxgraphmodel(diagram.child.cells),
                      Get(diagram, "name", "Untitled"))
    ELSE [diagrams |-> <<>>]

\* server.py 160-163: parse the root that ET.fromstring returned
ParseRoot(diagram_root, name) ==
    IF Raises(diagram_root) THEN diagram_root
    ELSE AppendParsed(ParseDrawioMxgraphmodel(diagram_root.cells), name)

\* server.py 158-163: decode the text and parse it
ParseText(diagram) ==
    ParseRoot(XmlFromString(DecodeDrawioData(Strip(diagram.text))),
              Get(diagram, "name", "Untitled"))

\* `if diagram_data:`, server.py 156: text that is not empty
TextTruthy(diagram) ==
    /\ HasText(diagram)
    /\ (diagram.text.ws \/ diagram.text.layers # <<>> \/ diagram.text.body # EmptyBody)

\* server.py 164-170: `except Exception:` falls back to the nested child
ExceptChild(tried, diagram) ==
    IF Raises(tried) THEN ParseChild(diagram) ELSE tried

\* server.py 152-177: one pass of the loop over the <diagram> elements
ReadDiagram(diagram) ==
    IF TextTruthy(diagram)
    THEN ExceptChild(ParseText(diagram), diagram)
    ELSE ParseChild(diagram)

\* server.py 152-177: the passes of the loop put together; a raise that no
\* `except` catches ends the loop and the function
JoinDiagrams(passes) ==
    IF \E i \in 1..Len(passes) : Raises(passes[i])
    THEN Raise("ValueError")
    ELSE [diagrams |-> Concat([i \in 1..Len(passes) |-> passes[i].diagrams])]

\* server.py 148-183: the list `diagrams`, or a raise
ReadDiagrams(content) ==
    IF content.root = "mxfile"
    THEN JoinDiagrams([i \in 1..Len(content.diagrams) |-> ReadDiagram(content.diagrams[i])])
    ELSE IF content.root = "mxGraphModel"
    THEN AppendParsed(ParseDrawioMxgraphmodel(content.cells), "Main")
    ELSE [diagrams |-> <<>>]

TruthyLabels(items) ==
    {items[i].label : i \in {j \in 1..Len(items) : Truthy(items[j].label)}}

RECURSIVE SumLen(_, _)
SumLen(diagrams, field) ==
    IF diagrams = <<>> THEN 0
    ELSE Len(Head(diagrams)[field]) + SumLen(Tail(diagrams), field)

\* server.py 185-209: the result built from the list `diagrams`
DrawioResult(r) ==
    IF Raises(r) THEN r
    ELSE [format |-> "drawio",
          diagrams |-> r.diagrams,
          text_content |->
              ListOfSet(UNION {TruthyLabels(r.diagrams[i].nodes)
                                 \cup TruthyLabels(r.diagrams[i].edges) :
                               i \in 1..Len(r.diagrams)}),
          metadata |-> [diagram_count |-> Len(r.diagrams),
                        total_nodes |-> SumLen(r.diagrams, "nodes"),
                        total_edges |-> SumLen(r.diagrams, "edges")]]

\* server.py 138-209
ReadDrawio(content) ==
    IF content.k # "xml" THEN [error |-> "Invalid XML"]
    ELSE DrawioResult(ReadDiagrams(content))

-----------------------------------------------------------------------------
(* _create_drawio_xml *)

\* ElementTree serialises str attribute values only: None raises TypeError
\* in ET.tostring, server.py 476
Serializable(cell) ==
    \A k \in DOMAIN cell \ {"geo"} : cell[k] # None

\* server.py 432-451: the cell of node number i (from 0)
DrawioNodeCell(node, i) ==
    LET geo == Get(node, "geometry", Null)
    IN  [id |-> Get(node, "id", "node-" \o ToString(i + 2)),
         value |-> Get(node, "label", ""),
         style |-> Get(node, "style", "rounded=1;whiteSpace=wrap;html=1;"),
         vertex |-> "1",
         parent |-> "1",
         geo |-> [attrs |-> [x |-> Get(geo, "x", i * 150),
                             y |-> Get(geo, "y", 100),
                             width |-> Get(geo, "width", 120),
                             height |-> Get(geo, "height", 60)],
                  bad |-> {}]]

\* server.py 455-474: the cell of edge number i (from 0)
DrawioEdgeCell(edge, i) ==
    [id |-> Get(edge, "id", "edge-" \o ToString(i + 100)),
     value |-> Get(edge, "label", ""),
     style |-> Get(edge, "style", "edgeStyle=orthogonalEdgeStyle;rounded=0;orthogonalLoop=1;jettySize=auto;html=1;"),
     edge |-> "1",
     parent |-> "1",
     source |-> Get(edge, "source", ""),
     target |-> Get(edge, "target", ""),
     geo |-> [attrs |-> Null, bad |-> {}]]

\* server.py 427-474: the <mxCell> elements under <root>
DrawioCells(nodes, edges) ==
    <<[id |-> "0"], [id |-> "1", parent |-> "0"]>>
    \o [i \in 1..Len(nodes) |-> DrawioNodeCell(nodes[i], i - 1)]
    \o [i \in 1..Len(edges) |-> DrawioEdgeCell(edges[i], i - 1)]

\* server.py 393-476: the document, or the TypeError of ET.tostring
CreateDrawioXml(nodes, edges, name) ==
    LET cells == DrawioCells(nodes, edges)
    IN  IF \E i \in 1..Len(cells) : ~Serializable(cells[i])
        THEN Raise("TypeError")
        ELSE [k |-> "xml", root |-> "mxfile",
              diagrams |-> <<[name |-> name,
                              text |-> NoText,
                              child |-> [xml |-> TRUE, cells |-> cells]]>>]

-----------------------------------------------------------------------------
(* Connector geometry.  Coordinates are integers; x / 2 and x * 0.2 are     *)
(* exact on the coordinates the model draws (multiples of 10).              *)

Abs(n) == IF n < 0 THEN -n ELSE n
Max(a, b) == IF a > b THEN a ELSE b
Half(n) == n \div 2

\* a variant of GenerateCurvedPoints whose auto direction bends a path that
\* is wider than high upwards, against which C19 is tested
GenerateCurvedPointsAutoUp(dx, dy, curve_direction) ==
    LET mid_x == Half(dx)
        mid_y == Half(dy)
        offset == (Max(Abs(dx), Abs(dy)) * 2) \div 10
    IN  CASE curve_direction = "up" -> <<<<0, 0>>, <<mid_x, mid_y - offset>>, <<dx, dy>>>>
          [] curve_direction = "down" -> <<<<0, 0>>, <<mid_x, mid_y + offset>>, <<dx, dy>>>>
          [] curve_direction = "left" -> <<<<0, 0>>, <<mid_x - offset, mid_y>>, <<dx, dy>>>>
          [] curve_direction = "right" -> <<<<0, 0>>, <<mid_x + offset, mid_y>>, <<dx, dy>>>>
          [] OTHER -> IF Abs(dx) > Abs(dy)
                      THEN <<<<0, 0>>, <<mid_x, mid_y - offset>>, <<dx, dy>>>>
                      ELSE <<<<0, 0>>, <<mid_x - offset, mid_y>>, <<dx, dy>>>>

\* server.py 479-512
GenerateCurvedPoints(dx, dy, curve_direction) ==
    LET mid_x == Half(dx)
        mid_y == Half(dy)
        offset == (Max(Abs(dx), Abs(dy)) * 2) \div 10
    IN  CASE curve_direction = "up" -> <<<<0, 0>>, <<mid_x, mid_y - offset>>, <<dx, dy>>>>
          [] curve_direction = "down" -> <<<<0, 0>>, <<mid_x, mid_y + offset>>, <<dx, dy>>>>
          [] curve_direction = "left" -> <<<<0, 0>>, <<mid_x - offset, mid_y>>, <<dx, dy>>>>
          [] curve_direction = "right" -> <<<<0, 0>>, <<mid_x + offset, mid_y>>, <<dx, dy>>>>
          [] OTHER -> IF Abs(dx) > Abs(dy)
                      THEN <<<<0, 0>>, <<mid_x, mid_y + offset>>, <<dx, dy>>>>
                      ELSE <<<<0, 0>>, <<mid_x - offset, mid_y>>, <<dx, dy>>>>

\* a variant of GenerateStepPoints that goes vertically first on the tie
\* |dx| = |dy| as well, against which C20 is tested
GenerateStepPointsTieVertical(dx, dy) ==
    IF Abs(dy) >= Abs(dx)
    THEN <<<<0, 0>>, <<0, dy>>, <<dx, dy>>>>
    ELSE <<<<0, 0>>, <<dx, 0>>, <<dx, dy>>>>

\* server.py 515-522
GenerateStepPoints(dx, dy) ==
    IF Abs(dy) > Abs(dx)
    THEN <<<<0, 0>>, <<0, dy>>, <<dx, dy>>>>
    ELSE <<<<0, 0>>, <<dx, 0>>, <<dx, dy>>>>

-----------------------------------------------------------------------------
(* _create_excalidraw_json.  An element is a dict of the keys that carry    *)
(* structure or geometry (id, type, x, y, width, height, text, fontSize,    *)
(* containerId, boundElements, points, startBinding, endBinding,            *)
(* roundness); the colour, stroke and version keys and the random seeds are *)
(* left out.  focus is in tenths (5 is 0.5).                                *)

Min(a, b) == IF a < b THEN a ELSE b

\* min() and max() of a collection, with the value used when it is empty
SetMin(S, default) == IF S = {} THEN default ELSE CHOOSE m \in S : \A n \in S : m <= n
SetMax(S, default) == IF S = {} THEN default ELSE CHOOSE m \in S : \A n \in S : m >= n

\* gen_id(), server.py 530-531: a random id, taken to differ from every
\* other id of the document
GenId(kind, i) == "gen-" \o kind \o ToString(i)

\* server.py 541
NodeElemId(node, i) == Get(node, "id", GenId("node", i))

\* server.py 543
NodeLabel(node) == Get(node, "label", Get(node, "text", ""))

\* server.py 626-630
BoundFontSize(node, label) ==
    LET base_font_size == Get(node, "fontSize", 16)
    IN  IF Len(label) > 30 THEN Min(base_font_size, 12)
        ELSE IF Len(label) > 50 THEN Min(base_font_size, 10)
        ELSE base_font_size

\* server.py 546-579: the standalone text element of a node of type text
TextElem(node, i) ==
    [id |-> NodeElemId(node, i),
     type |-> "text",
     x |-> Get(node, "x", i * 150),
     y |-> Get(node, "y", 100),
     width |-> Get(node, "width", 100),
     height |-> Get(node, "height", 25),
     text |-> NodeLabel(node),
     fontSize |-> Get(node, "fontSize", 16),
     boundElements |-> <<>>,
     containerId |-> None]

\* server.py 584
BoundTextId(node, i) ==
    IF Truthy(NodeLabel(node)) THEN NodeElemId(node, i) \o "_text" ELSE None

\* server.py 587-614: the shape element of a node
ShapeElem(node, i) ==
    [id |-> NodeElemId(node, i),
     type |-> Get(node, "type", "rectangle"),
     x |-> Get(node, "x", i * 150),
     y |-> Get(node, "y", 100),
     width |-> Get(node, "width", 120),
     height |-> Get(node, "height", 60),
     boundElements |-> IF BoundTextId(node, i) # None
                       THEN <<[type |-> "text", id |-> BoundTextId(node, i)]>>
                       ELSE <<>>]

\* a variant of BoundTextElem that leaves the text free of its shape
\* (containerId null), against which C9 is tested
BoundTextElemUnlinked(node, i) ==
    [id |-> BoundTextId(node, i),
     type |-> "text",
     x |-> Get(node, "x", i * 150),
     y |-> Get(node, "y", 100),
     width |-> Get(node, "width", 120),
     height |-> Get(node, "height", 60),
     text |-> NodeLabel(node),
     fontSize |-> BoundFontSize(node, NodeLabel(node)),
     boundElements |-> <<>>,
     containerId |-> None]

\* server.py 619-667: the text element bound to the shape of a node
BoundTextElem(node, i) ==
    [id |-> BoundTextId(node, i),
     type |-> "text",
     x |-> Get(node, "x", i * 150),
     y |-> Get(node, "y", 100),
     width |-> Get(node, "width", 120),
     height |-> Get(node, "height", 60),
     text |-> NodeLabel(node),
     fontSize |-> BoundFontSize(node, NodeLabel(node)),
     boundElements |-> <<>>,
     containerId |-> NodeElemId(node, i)]

\* server.py 540-667: the elements node number i (from 0) adds; the first
\* is the one element_map records under the node's id
NodeElems(node, i) ==
    IF Get(node, "type", "rectangle") = "text" THEN <<TextElem(node, i)>>
    ELSE IF Truthy(NodeLabel(node))
    THEN <<ShapeElem(node, i), BoundTextElem(node, i)>>
    ELSE <<ShapeElem(node, i)>>

\* server.py 670: node_lookup holds the nodes with a truthy id, the last
\* node of an id winning
InNodeLookup(nodes, id) ==
    \E i \in 1..Len(nodes) : Truthy(Get(nodes[i], "id", None)) /\ nodes[i].id = id

\* server.py 689-690: node_lookup[id]
NodeLookup(nodes, id) ==
    nodes[SetMax({i \in 1..Len(nodes) : Get(nodes[i], "id", None) = id}, 0)]

\* server.py 688, and 786 the same: both ends of the edge name nodes
EdgeResolves(nodes, edge) ==
    /\ Truthy(Get(edge, "source", None)) /\ Truthy(Get(edge, "target", None))
    /\ InNodeLookup(nodes, edge.source) /\ InNodeLookup(nodes, edge.target)

\* server.py 701-708: the centres of the two boxes and their offset
Boxes(src_x, src_y, src_w, src_h, tgt_x, tgt_y, tgt_w, tgt_h) ==
    [src_x |-> src_x, src_y |-> src_y, src_w |-> src_w, src_h |-> src_h,
     tgt_x |-> tgt_x, tgt_y |-> tgt_y, tgt_w |-> tgt_w, tgt_h |-> tgt_h,
     src_cx |-> src_x + Half(src_w), src_cy |-> src_y + Half(src_h),
     tgt_cx |-> tgt_x + Half(tgt_w), tgt_cy |-> tgt_y + Half(tgt_h),
     dx |-> (tgt_x + Half(tgt_w)) - (src_x + Half(src_w)),
     dy |-> (tgt_y + Half(tgt_h)) - (src_y + Half(src_h))]

\* server.py 692-699: the boxes of the two nodes
NodeBoxes(src, tgt) ==
    Boxes(Get(src, "x", 0), Get(src, "y", 0), Get(src, "width", 120), Get(src, "height", 60),
          Get(tgt, "x", 0), Get(tgt, "y", 0), Get(tgt, "width", 120), Get(tgt, "height", 60))

\* server.py 689-708
EdgeBoxes(nodes, edge) ==
    NodeBoxes(NodeLookup(nodes, edge.source), NodeLookup(nodes, edge.target))

\* a variant of ArrowStart that resolves the tie |dx| = |dy| by the
\* horizontal branch, against which C18 is tested
ArrowStartTieHorizontal(b, start_side) ==
    CASE start_side = "bottom" -> <<b.src_cx, b.src_y + b.src_h>>
      [] start_side = "top" -> <<b.src_cx, b.src_y>>
      [] start_side = "left" -> <<b.src_x, b.src_cy>>
      [] start_side = "right" -> <<b.src_x + b.src_w, b.src_cy>>
      [] OTHER -> IF Abs(b.dx) >= Abs(b.dy)
                  THEN <<IF b.dx > 0 THEN b.src_x + b.src_w ELSE b.src_x, b.src_cy>>
                  ELSE <<b.src_cx, IF b.dy > 0 THEN b.src_y + b.src_h ELSE b.src_y>>

\* server.py 715-734: the start point on the source box
ArrowStart(b, start_side) ==
    CASE start_side = "bottom" -> <<b.src_cx, b.src_y + b.src_h>>
      [] start_side = "top" -> <<b.src_cx, b.src_y>>
      [] start_side = "left" -> <<b.src_x, b.src_cy>>
      [] start_side = "right" -> <<b.src_x + b.src_w, b.src_cy>>
      [] OTHER -> IF Abs(b.dx) > Abs(b.dy)
                  THEN <<IF b.dx > 0 THEN b.src_x + b.src_w ELSE b.src_x, b.src_cy>>
                  ELSE <<b.src_cx, IF b.dy > 0 THEN b.src_y + b.src_h ELSE b.src_y>>

\* server.py 737-756: the end point on the target box
ArrowEnd(b, end_side) ==
    CASE end_side = "top" -> <<b.tgt_cx, b.tgt_y>>
      [] end_side = "bottom" -> <<b.tgt_cx, b.tgt_y + b.tgt_h>>
      [] end_side = "left" -> <<b.tgt_x, b.tgt_cy>>
      [] end_side = "right" -> <<b.tgt_x + b.tgt_w, b.tgt_cy>>
      [] OTHER -> IF Abs(b.dx) > Abs(b.dy)
                  THEN <<IF b.dx > 0 THEN b.tgt_x ELSE b.tgt_x + b.tgt_w, b.tgt_cy>>
                  ELSE <<b.tgt_cx, IF b.dy > 0 THEN b.tgt_y ELSE b.tgt_y + b.tgt_h>>

\* server.py 678-679 and 758-759: the position of the arrow
ArrowPos(nodes, edge) ==
    IF EdgeResolves(nodes, edge)
    THEN ArrowStart(EdgeBoxes(nodes, edge), Get(edge, "startSide", None))
    ELSE <<Get(edge, "x", 0), Get(edge, "y", 130)>>

\* server.py 767-774: the points from the offset of the end to the start
RoutePoints(edge, end_dx, end_dy) ==
    IF Get(edge, "curveStyle", "straight") = "curved"
    THEN GenerateCurvedPoints(end_dx, end_dy, Get(edge, "curveDirection", "auto"))
    ELSE IF Get(edge, "curveStyle", "straight") = "step"
    THEN GenerateStepPoints(end_dx, end_dy)
    ELSE <<<<0, 0>>, <<end_dx, end_dy>>>>

\* server.py 762-763: end_dx and end_dy
BoxPoints(edge, start, end) ==
    RoutePoints(edge, end[1] - start[1], end[2] - start[2])

\* server.py 711-763: the start and the end on the two boxes
FromBoxes(edge, b) ==
    BoxPoints(edge, ArrowStart(b, Get(edge, "startSide", None)),
              ArrowEnd(b, Get(edge, "endSide", None)))

\* server.py 680 and 766-774: the points of the arrow
ArrowPoints(nodes, edge) ==
    IF EdgeResolves(nodes, edge) /\ Get(edge, "points", <<>>) = <<>>
    THEN FromBoxes(edge, EdgeBoxes(nodes, edge))
    ELSE Get(edge, "points", <<<<0, 0>>, <<100, 0>>>>)

\* server.py 674
ArrowId(edge, i) == Get(edge, "id", GenId("edge", i))

\* server.py 777
EdgeTextId(edge, i) ==
    IF Truthy(Get(edge, "label", "")) THEN GenId("label", i) ELSE None

\* server.py 787-792: the focus of the start binding
StartFocus(b) ==
    IF Abs(b.dx) > Abs(b.dy)
    THEN IF b.dx > 0 THEN 5 ELSE -5
    ELSE IF b.dy > 0 THEN 5 ELSE -5

\* a variant of StartBinding that binds the start whenever the source alone
\* is the id of a node, against which C24 is tested
StartBindingOnSource(nodes, edge) ==
    IF Truthy(Get(edge, "source", None)) /\ InNodeLookup(nodes, edge.source)
    THEN [elementId |-> edge.source, focus |-> 5, gap |-> 8]
    ELSE Null

\* server.py 783-798
StartBinding(nodes, edge) ==
    IF EdgeResolves(nodes, edge)
    THEN [elementId |-> edge.source,
          focus |-> StartFocus(EdgeBoxes(nodes, edge)),
          gap |-> 8]
    ELSE Null

\* server.py 784-803
EndBinding(nodes, edge) ==
    IF EdgeResolves(nodes, edge)
    THEN [elementId |-> edge.target,
          focus |-> -StartFocus(EdgeBoxes(nodes, edge)),
          gap |-> 8]
    ELSE Null

\* server.py 807-808: is_curved
IsCurved(edge, points) ==
    Get(edge, "curveStyle", "straight") = "curved" \/ Len(points) > 2

\* server.py 810-842: the arrow element
Arrow(edge, i, points, pos, start_binding, end_binding) ==
    [id |-> ArrowId(edge, i),
     type |-> "arrow",
     x |-> pos[1],
     y |-> pos[2],
     width |-> IF points # <<>> THEN Abs(points[Len(points)][1]) ELSE 100,
     height |-> IF points # <<>> THEN Abs(points[Len(points)][2]) ELSE 0,
     roundness |-> IF IsCurved(edge, points) THEN [type |-> 2] ELSE Null,
     boundElements |-> IF EdgeTextId(edge, i) # None
                       THEN <<[id |-> EdgeTextId(edge, i), type |-> "text"]>>
                       ELSE <<>>,
     points |-> points,
     startBinding |-> start_binding,
     endBinding |-> end_binding]

\* server.py 673-842: the arrow element of edge number i (from 0)
ArrowElem(nodes, edge, i) ==
    Arrow(edge, i, ArrowPoints(nodes, edge), ArrowPos(nodes, edge),
          StartBinding(nodes, edge), EndBinding(nodes, edge))

\* server.py 846-884: the text element of a label
EdgeText(edge, i, points, pos) ==
    [id |-> EdgeTextId(edge, i),
     type |-> "text",
     x |-> IF points # <<>> THEN pos[1] + Half(points[Len(points)][1])
           ELSE pos[1] + 50,
     y |-> IF points # <<>> THEN pos[2] + Half(points[Len(points)][2]) - 15
           ELSE pos[2] - 15,
     width |-> Len(edge.label) * 8,
     height |-> 20,
     text |-> edge.label,
     fontSize |-> 14,
     boundElements |-> <<>>,
     containerId |-> ArrowId(edge, i)]

\* server.py 845-884: the text element of the label of edge number i
EdgeTextElem(nodes, edge, i) ==
    EdgeText(edge, i, ArrowPoints(nodes, edge), ArrowPos(nodes, edge))

\* server.py 673-884: the elements edge number i (from 0) adds
EdgeElems(nodes, edge, i) ==
    IF Truthy(Get(edge, "label", ""))
    THEN <<ArrowElem(nodes, edge, i), EdgeTextElem(nodes, edge, i)>>
    ELSE <<ArrowElem(nodes, edge, i)>>

\* server.py 804: arrow_bindings, one (arrow_id, source_id, target_id) for
\* every edge that resolves, in the order of the edges
ArrowBindings(nodes, edges) ==
    Concat([i \in 1..Len(edges) |->
              IF EdgeResolves(nodes, edges[i])
              THEN <<[arrow_id |-> ArrowId(edges[i], i - 1),
                      source_id |-> edges[i].source,
                      target_id |-> edges[i].target]>>
              ELSE <<>>])

\* a variant of BackReferences that records an arrow on its source only,
\* against which C10 is tested
BackReferencesOfSource(bindings, id) ==
    Concat([k \in 1..Len(bindings) |->
              IF bindings[k].source_id = id
              THEN <<[type |-> "arrow", id |-> bindings[k].arrow_id]>> ELSE <<>>])

\* server.py 887-891: what the loop over arrow_bindings appends to the
\* boundElements of the element that element_map holds under id
BackReferences(bindings, id) ==
    Concat([k \in 1..Len(bindings) |->
              (IF bindings[k].source_id = id
               THEN <<[type |-> "arrow", id |-> bindings[k].arrow_id]>> ELSE <<>>)
              \o
              (IF bindings[k].target_id = id
               THEN <<[type |-> "arrow", id |-> bindings[k].arrow_id]>> ELSE <<>>)])

\* server.py 581 and 616: element_map[elem_id] is the first element of the
\* last node whose element id is elem_id
InElementMap(nodes, i) ==
    \A j \in (i + 1)..Len(nodes) :
        NodeElemId(nodes[j], j - 1) # NodeElemId(nodes[i], i - 1)

\* server.py 889 and 891: the appends to the boundElements of the element
\* that element_map holds
Linked(elems, refs) ==
    <<[elems[1] EXCEPT !.boundElements = @ \o refs]>> \o Tail(elems)

\* server.py 540-667 with 886-891 applied: the elements of node number i
\* (from 1) as they stand in the document returned
NodeElemsLinked(nodes, edges, i) ==
    IF InElementMap(nodes, i)
    THEN Linked(NodeElems(nodes[i], i - 1),
                BackReferences(ArrowBindings(nodes, edges), NodeElemId(nodes[i], i - 1)))
    ELSE NodeElems(nodes[i], i - 1)

\* server.py 525-903: the elements of the document
ExcalidrawElements(nodes, edges) ==
    Concat([i \in 1..Len(nodes) |-> NodeElemsLinked(nodes, edges, i)])
    \o Concat([i \in 1..Len(edges) |-> EdgeElems(nodes, edges[i], i - 1)])

\* server.py 893-903
CreateExcalidrawJson(nodes, edges) ==
    [k |-> "json", top |-> "object",
     elements |-> ExcalidrawElements(nodes, edges)]

-----------------------------------------------------------------------------
(* _create_svg.  The document is [k |-> "xml", root |-> "svg", width,       *)
(* height, parts]; parts are the elements emitted after the <defs> and the  *)
(* background <rect>, each a dict with its tag.                             *)


\* server.py 909-912
SvgBounds(nodes, width, height) ==
    [min_x |-> SetMin({Get(nodes[i], "x", 0) : i \in 1..Len(nodes)}, 0),
     min_y |-> SetMin({Get(nodes[i], "y", 0) : i \in 1..Len(nodes)}, 0),
     max_x |-> SetMax({Get(nodes[i], "x", 0) + Get(nodes[i], "width", 120) :
                         i \in 1..Len(nodes)}, width),
     max_y |-> SetMax({Get(nodes[i], "y", 0) + Get(nodes[i], "height", 60) :
                         i \in 1..Len(nodes)}, height)]

SvgPadding == 50

\* server.py 932-952: the shape of node number i (from 0)
SvgShape(node, i, bounds) ==
    LET x == Get(node, "x", i * 150) - bounds.min_x + SvgPadding
        y == Get(node, "y", 100) - bounds.min_y + SvgPadding
        w == Get(node, "width", 120)
        h == Get(node, "height", 60)
        node_type == Get(node, "type", "rectangle")
    IN  IF node_type \in {"ellipse", "circle"}
        THEN [tag |-> "ellipse", cx |-> x + Half(w), cy |-> y + Half(h),
              rx |-> Half(w), ry |-> Half(h)]
        ELSE IF node_type = "diamond"
        THEN [tag |-> "polygon",
              points |-> <<<<x + Half(w), y>>, <<x + w, y + Half(h)>>,
                           <<x + Half(w), y + h>>, <<x, y + Half(h)>>>>]
        ELSE [tag |-> "rect", x |-> x, y |-> y, width |-> w, height |-> h]

\* server.py 936 and 955-958: the label of node number i (from 0)
SvgLabel(node, i, bounds) ==
    LET label == Get(node, "label", Get(node, "text", ""))
        x == Get(node, "x", i * 150) - bounds.min_x + SvgPadding
        y == Get(node, "y", 100) - bounds.min_y + SvgPadding
    IN  IF Truthy(label)
        THEN <<[tag |-> "text",
                x |-> x + Half(Get(node, "width", 120)),
                y |-> y + Half(Get(node, "height", 60)) + 5,
                text |-> label]>>
        ELSE <<>>

\* server.py 961: node_lookup, keyed by id or by 'node-<i>', the last winning
SvgNodeKey(nodes, i) == Get(nodes[i], "id", "node-" \o ToString(i - 1))

\* server.py 969: `in node_lookup`
InSvgLookup(nodes, id) == \E i \in 1..Len(nodes) : SvgNodeKey(nodes, i) = id

\* server.py 970-971: node_lookup[id]
SvgLookup(nodes, id) ==
    nodes[SetMax({i \in 1..Len(nodes) : SvgNodeKey(nodes, i) = id}, 0)]

\* server.py 969
SvgEdgeDrawn(nodes, edge) ==
    /\ Truthy(Get(edge, "source", None)) /\ Truthy(Get(edge, "target", None))
    /\ InSvgLookup(nodes, edge.source) /\ InSvgLookup(nodes, edge.target)

\* server.py 978-983: the line and the label
SvgLine(edge, x1, y1, x2, y2) ==
    <<[tag |-> "line", x1 |-> x1, y1 |-> y1, x2 |-> x2, y2 |-> y2]>>
    \o (IF Truthy(Get(edge, "label", ""))
        THEN <<[tag |-> "text", x |-> Half(x1 + x2),
                y |-> Half(y1 + y2) - 10, text |-> edge.label]>>
        ELSE <<>>)

\* server.py 973-976: the ends of the line
SvgJoin(edge, src, tgt, bounds) ==
    SvgLine(edge,
            Get(src, "x", 0) - bounds.min_x + SvgPadding + Get(src, "width", 120),
            Get(src, "y", 100) - bounds.min_y + SvgPadding + Half(Get(src, "height", 60)),
            Get(tgt, "x", 0) - bounds.min_x + SvgPadding,
            Get(tgt, "y", 100) - bounds.min_y + SvgPadding + Half(Get(tgt, "height", 60)))

\* a variant of SvgEdgeParts that emits the label of an edge it does not
\* draw, against which C13 is tested
SvgEdgePartsLabelAlways(nodes, edge, bounds) ==
    IF SvgEdgeDrawn(nodes, edge)
    THEN SvgJoin(edge, SvgLookup(nodes, edge.source), SvgLookup(nodes, edge.target), bounds)
    ELSE IF Truthy(Get(edge, "label", ""))
    THEN <<[tag |-> "text", x |-> 0, y |-> 0, text |-> edge.label]>>
    ELSE <<>>

\* server.py 964-983: the line of an edge and its label
SvgEdgeParts(nodes, edge, bounds) ==
    IF SvgEdgeDrawn(nodes, edge)
    THEN SvgJoin(edge, SvgLookup(nodes, edge.source), SvgLookup(nodes, edge.target), bounds)
    ELSE <<>>

\* server.py 916-985: the document within the bounds
SvgDocument(nodes, edges, bounds) ==
    [k |-> "xml", root |-> "svg",
     width |-> Max(800, bounds.max_x - bounds.min_x + SvgPadding * 2),
     height |-> Max(600, bounds.max_y - bounds.min_y + SvgPadding * 2),
     parts |-> Concat([i \in 1..Len(nodes) |->
                         <<SvgShape(nodes[i], i - 1, bounds)>>
                         \o SvgLabel(nodes[i], i - 1, bounds)])
               \o Concat([i \in 1..Len(edges) |->
                            SvgEdgeParts(nodes, edges[i], bounds)])]

\* server.py 906-986
CreateSvg(nodes, edges) == SvgDocument(nodes, edges, SvgBounds(nodes, 800, 600))

-----------------------------------------------------------------------------
(* _read_svg *)

\* server.py 309-312: the text of the elements of the document, in order
SvgTexts(content) ==
    IF content.root = "svg"
    THEN Concat([i \in 1..Len(content.parts) |->
                   IF content.parts[i].tag = "text" /\ Truthy(content.parts[i].text)
                   THEN <<content.parts[i].text>> ELSE <<>>])
    ELSE <<>>

\* server.py 316-319: the tags counted; <svg>, <defs>, <marker> are not, the
\* arrowhead <polygon> and the background <rect> are
SvgShapeTags(content) ==
    IF content.root = "svg"
    THEN <<"polygon", "rect">> \o [i \in 1..Len(content.parts) |-> content.parts[i].tag]
    ELSE <<>>

\* server.py 293-333
ReadSvg(content) ==
    IF content.k # "xml" THEN [error |-> "Invalid SVG"]
    ELSE [format |-> "svg",
          dimensions |-> [width |-> Get(content, "width", 0),
                          height |-> Get(content, "height", 0)],
          text_content |-> ListOfSet(Range(SvgTexts(content))),
          metadata |-> [total_elements |-> Len(SvgShapeTags(content))]]

-----------------------------------------------------------------------------
(* The tools.  A path is [dir |-> d, ext |-> e]: the file of extension e in *)
(* directory d of the project; "." is PROJECT_DIR itself.  A tool's effect  *)
(* is an outcome: the files, the directories, the result returned and the   *)
(* exception its try block caught.                                          *)

NoRaise == [exc |-> NoException]
Caught(exc, where) == [exc |-> exc, in |-> where]

Outcome(files, ds, result, exc) ==
    [fs |-> files, dirs |-> ds, ret |-> result, raised |-> exc]

Exists(path) == fs[path] # NoFile

\* Path.mkdir(parents=True, exist_ok=True) on the parent of path
MkdirParent(path) == dirs \cup {path.dir}

\* Path.write_text
WriteText(path, content) == [fs EXCEPT ![path] = content]

\* server.py 40: the components of PROJECT_DIR, resolved
ProjectDir == <<"srv", "proj">>

\* server.py 45, PROJECT_DIR / path: the components of the directory the
\* caller names, joined to PROJECT_DIR; an absolute path replaces it
Joined(dir) ==
    CASE dir = "." -> ProjectDir
      [] dir = "out" -> ProjectDir \o <<"out">>
      [] dir = ".." -> ProjectDir \o <<"..">>
      [] dir = "out/../.." -> ProjectDir \o <<"out", "..", "..">>
      [] dir = "../proj" -> ProjectDir \o <<"..", "proj">>
      [] dir = "/etc" -> <<"etc">>

\* server.py 45, Path.resolve(): a '..' takes the component before it away,
\* and stays at the root; the file system of the model holds no symlink
RECURSIVE Resolve(_, _)
Resolve(done, rest) ==
    IF rest = <<>> THEN done
    ELSE IF Head(rest) = ".."
    THEN Resolve(SubSeq(done, 1, Len(done) - 1), Tail(rest))
    ELSE Resolve(Append(done, Head(rest)), Tail(rest))

\* a variant of ResolvePath that resolves the path and does not look where
\* it lies, against which C25 is tested
ResolvePathUnchecked(path) ==
    IF /\ Len(Resolve(<<>>, Joined(path.dir))) >= 2
       /\ SubSeq(Resolve(<<>>, Joined(path.dir)), 1, 2) = ProjectDir
    THEN [dir |-> IF Len(Resolve(<<>>, Joined(path.dir))) = 2 THEN "."
                  ELSE Resolve(<<>>, Joined(path.dir))[3],
          ext |-> path.ext]
    ELSE [dir |-> "..", ext |-> path.ext]

\* server.py 43-50: the path inside the project directory, or ValueError
\* when relative_to finds the resolved path outside PROJECT_DIR
ResolvePath(path) ==
    IF /\ Len(Resolve(<<>>, Joined(path.dir))) >= 2
       /\ SubSeq(Resolve(<<>>, Joined(path.dir)), 1, 2) = ProjectDir
    THEN [dir |-> IF Len(Resolve(<<>>, Joined(path.dir))) = 2 THEN "."
                  ELSE Resolve(<<>>, Joined(path.dir))[3],
          ext |-> path.ext]
    ELSE Raise("ValueError")

\* `except ValueError` of every tool: the message of _resolve_path
Escapes ==
    Outcome(fs, dirs, [error |-> "escapes the project directory"],
            Caught("ValueError", "_resolve_path"))

\* the parser of a suffix, server.py 369-374 and 1500-1514
ParseFile(suffix, content) ==
    IF suffix \in {"drawio", "xml"} THEN ReadDrawio(content)
    ELSE IF suffix = "excalidraw" THEN ReadExcalidraw(content)
    ELSE ReadSvg(content)

ParserName(suffix) ==
    IF suffix \in {"drawio", "xml"} THEN "_read_drawio"
    ELSE IF suffix = "excalidraw" THEN "_read_excalidraw"
    ELSE "_read_svg"

\* server.py 376-386: the parser's result with the path, or the message of
\* what it raised
ReadParsed(path, result) ==
    IF Raises(result)
    THEN Outcome(fs, dirs,
                 [error |-> IF result.raise = "ValueError"
                            THEN "could not convert string to float"
                            ELSE "Failed to read diagram"],
                 Caught(result.raise, ParserName(path.ext)))
    ELSE Outcome(fs, dirs, result @@ ("path" :> path), NoRaise)

\* server.py 361-386
ReadOutcome(path) ==
    IF ~Exists(path)
    THEN Outcome(fs, dirs, [error |-> "File not found"], NoRaise)
    ELSE IF path.ext \notin {"drawio", "xml", "excalidraw", "svg"}
    THEN Outcome(fs, dirs, [error |-> "Unsupported format"], NoRaise)
    ELSE ReadParsed(path, ParseFile(path.ext, fs[path]))

\* the generator of a suffix, server.py 1042-1047 and 1536-1541
Generate(suffix, nodes, edges, name) ==
    IF suffix \in {"drawio", "xml"} THEN CreateDrawioXml(nodes, edges, name)
    ELSE IF suffix = "excalidraw" THEN CreateExcalidrawJson(nodes, edges)
    ELSE CreateSvg(nodes, edges)

GeneratorName(suffix) ==
    IF suffix \in {"drawio", "xml"} THEN "_create_drawio_xml"
    ELSE IF suffix = "excalidraw" THEN "_create_excalidraw_json"
    ELSE "_create_svg"

\* an argument of diagram_write that is no JSON
InvalidJson == <<[invalid |-> TRUE]>>

\* server.py 1049-1067: make the directory and write the content, unless the
\* generator raised
WriteGenerated(path, nodes, edges, content) ==
    IF Raises(content)
    THEN Outcome(fs, dirs, [error |-> "Failed to write diagram"],
                 Caught(content.raise, GeneratorName(path.ext)))
    ELSE Outcome(WriteText(path, content), MkdirParent(path),
                 [success |-> TRUE, path |-> path, format |-> path.ext,
                  node_count |-> Len(nodes), edge_count |-> Len(edges)],
                 NoRaise)

\* server.py 1031-1067
WriteOutcome(path, nodes, edges, name) ==
    IF nodes = InvalidJson \/ edges = InvalidJson
    THEN Outcome(fs, dirs, [error |-> "Invalid JSON"], NoRaise)
    ELSE IF path.ext \notin {"drawio", "xml", "excalidraw", "svg"}
    THEN Outcome(fs, dirs, [error |-> "Unsupported format for writing"], NoRaise)
    ELSE WriteGenerated(path, nodes, edges, Generate(path.ext, nodes, edges, name))

\* server.py 1504-1508 and 1513-1514: the nodes and edges of a parsed source
AllNodes(result) ==
    IF result.format = "drawio"
    THEN Concat([i \in 1..Len(result.diagrams) |-> result.diagrams[i].nodes])
    ELSE result.nodes

AllEdges(result) ==
    IF result.format = "drawio"
    THEN Concat([i \in 1..Len(result.diagrams) |-> result.diagrams[i].edges])
    ELSE result.edges

\* a variant of ConvertParseError that answers with the tool's own message
\* in place of the parser's, against which C5 is tested
ConvertParseErrorWrapped(result) ==
    Outcome(fs, dirs, [error |-> "Conversion failed"], NoRaise)

\* server.py 1502-1503 and 1511-1512: the parser returned an error
ConvertParseError(result) == Outcome(fs, dirs, result, NoRaise)

\* server.py 1549-1562: write the content, unless the generator raised
ConvertGenerated(source_path, target_path, all_nodes, all_edges, content) ==
    IF Raises(content)
    THEN Outcome(fs, MkdirParent(target_path), [error |-> "Conversion failed"],
                 Caught(content.raise, GeneratorName(target_path.ext)))
    ELSE Outcome(WriteText(target_path, content), MkdirParent(target_path),
                 [success |-> TRUE, source |-> source_path, target |-> target_path,
                  nodes_converted |-> Len(all_nodes),
                  edges_converted |-> Len(all_edges)],
                 NoRaise)

\* server.py 1533-1557: write the parsed source in the target's format
ConvertWrite(source_path, target_path, result) ==
    IF target_path.ext = "png"
    THEN Outcome(fs, MkdirParent(target_path),
                 [error |-> "For PNG output, use diagram_render tool instead"], NoRaise)
    ELSE IF target_path.ext \notin {"drawio", "xml", "excalidraw", "svg"}
    THEN Outcome(fs, MkdirParent(target_path),
                 [error |-> "Unsupported target format"], NoRaise)
    ELSE ConvertGenerated(source_path, target_path, AllNodes(result), AllEdges(result),
                          Generate(target_path.ext, AllNodes(result), AllEdges(result),
                                   "Page-1"))

\* server.py 1515-1529: an .svg source; cairosvg says whether the import of
\* the rasteriser succeeds, and svg2png raises on what is no SVG
ConvertSvg(source_path, target_path, cairosvg) ==
    IF target_path.ext # "png"
    THEN Outcome(fs, dirs, [error |-> "SVG can only be converted to PNG"], NoRaise)
    ELSE IF ~cairosvg
    THEN Outcome(fs, dirs, [error |-> "cairosvg not installed"], NoRaise)
    ELSE IF fs[source_path].k = "xml"
    THEN Outcome(WriteText(target_path, [k |-> "png"]), MkdirParent(target_path),
                 [success |-> TRUE, source |-> source_path, target |-> target_path],
                 NoRaise)
    ELSE Outcome(fs, MkdirParent(target_path), [error |-> "Conversion failed"],
                 Caught("ParseError", "cairosvg"))

\* server.py 1500-1514 and 1559-1562: what follows the parse of the source
ConvertParsed(source_path, target_path, result) ==
    IF Raises(result)
    THEN Outcome(fs, dirs,
                 [error |-> IF result.raise = "ValueError"
                            THEN "could not convert string to float"
                            ELSE "Conversion failed"],
                 Caught(result.raise, ParserName(source_path.ext)))
    ELSE IF IsError(result) THEN ConvertParseError(result)
    ELSE ConvertWrite(source_path, target_path, result)

\* server.py 1489-1562
ConvertOutcome(source_path, target_path, cairosvg) ==
    IF ~Exists(source_path)
    THEN Outcome(fs, dirs, [error |-> "Source file not found"], NoRaise)
    ELSE IF source_path.ext \in {"drawio", "xml", "excalidraw"}
    THEN ConvertParsed(source_path, target_path,
                       ParseFile(source_path.ext, fs[source_path]))
    ELSE IF source_path.ext = "svg"
    THEN ConvertSvg(source_path, target_path, cairosvg)
    ELSE Outcome(fs, dirs, [error |-> "Unsupported source format"], NoRaise)

-----------------------------------------------------------------------------
(* Bounds and the documents the model draws *)

MaxCalls == 1     \* tool calls in a behaviour of Spec
MaxElems == 2     \* elements of a whiteboard document
MaxCells == 2     \* cells of a graph model
MaxPages == 2     \* <diagram> elements of a container
MaxNodes == 2     \* nodes given to diagram_write
MaxEdges == 1     \* edges given to diagram_write

\* the paths inside the project directory that the tools are given
Paths == [dir : {".", "out"}, ext : {"excalidraw", "drawio", "svg", "png", "vsdx"}]
P(d, e) == [dir |-> d, ext |-> e]

\* elements of a whiteboard document
HelloShape ==
    [id |-> "a", type |-> "rectangle", x |-> 0, y |-> 0, width |-> 100, height |-> 60,
     boundElements |-> <<[type |-> "text", id |-> "t"]>>]

HelloText ==
    [id |-> "t", type |-> "text", text |-> "Hello", containerId |-> "a",
     x |-> 0, y |-> 0, width |-> 100, height |-> 60]

ElemChoices ==
    {HelloShape, HelloText,
     [id |-> "b", type |-> "ellipse", x |-> 200, y |-> 0, width |-> 100, height |-> 60],
     [id |-> "u", type |-> "text", text |-> ""],
     [id |-> "v", type |-> "text", text |-> "Hello"],
     [id |-> "e", type |-> "arrow", points |-> <<<<0, 0>>, <<100, 0>>>>,
      startBinding |-> [elementId |-> "a", focus |-> 5, gap |-> 8],
      endBinding |-> [elementId |-> "b", focus |-> -5, gap |-> 8]],
     [id |-> "f", type |-> "arrow", startBinding |-> Null, endBinding |-> Null],
     [id |-> "g", type |-> "line", points |-> <<<<0, 0>>, <<50, 50>>>>],
     JsonScalar}

ExcalidrawDocs ==
    {[k |-> "json", top |-> "object", elements |-> els] :
        els \in SeqsUpTo(ElemChoices, MaxElems)}
    \cup {[k |-> "json", top |-> "object"], [k |-> "json", top |-> "array"], JunkText}

\* cells of a graph model
CellChoices ==
    {[id |-> "0"],
     [id |-> "a", value |-> "A", style |-> "ellipse", vertex |-> "1", parent |-> "1",
      geo |-> [attrs |-> [x |-> 10, y |-> 20, width |-> 100, height |-> 60], bad |-> {}]],
     [id |-> "b", value |-> "B"],
     [id |-> "c", vertex |-> "1", geo |-> [attrs |-> [x |-> 10], bad |-> {}]],
     [id |-> "d", value |-> "D", vertex |-> "1", geo |-> [attrs |-> Null, bad |-> {"x"}]],
     [id |-> "e", value |-> "E", edge |-> "1", vertex |-> "1", source |-> "a", target |-> "b"],
     [id |-> "f", edge |-> "1", source |-> "a"],
     [id |-> "1", value |-> "R", vertex |-> "1", source |-> "a", target |-> "b"]}

GraphModels == {[xml |-> TRUE, cells |-> cs] : cs \in SeqsUpTo(CellChoices, MaxCells)}

Encoded == <<"url", "b64", "deflate">>

\* the ways a <diagram> stores a graph model m
StoredCompressed(m) ==
    [name |-> "P", text |-> [layers |-> Encoded, body |-> m, ws |-> FALSE], child |-> NoChild]
StoredBase64(m) ==
    [name |-> "P", text |-> [layers |-> <<"b64", "deflate">>, body |-> m, ws |-> TRUE],
     child |-> NoChild]
StoredPlainText(m, ws) ==
    [name |-> "P", text |-> [layers |-> <<>>, body |-> m, ws |-> ws], child |-> NoChild]
StoredChild(m) ==
    [name |-> "P", text |-> NoText, child |-> m]
StoredChildWs(m) ==
    [name |-> "P", text |-> [layers |-> <<>>, body |-> EmptyBody, ws |-> TRUE], child |-> m]

\* a <diagram> whose text is no encoding of XML known to the decoder
UnreadableDiagrams ==
    {[text |-> [layers |-> <<>>, body |-> JunkBody, ws |-> FALSE], child |-> NoChild],
     [text |-> [layers |-> Encoded, body |-> JunkBody, ws |-> FALSE], child |-> NoChild],
     [text |-> NoText, child |-> NoChild]}

GoodModel ==
    [xml |-> TRUE,
     cells |-> <<[id |-> "0"], [id |-> "1", parent |-> "0"],
                 [id |-> "p", value |-> "Page", vertex |-> "1", parent |-> "1",
                  geo |-> [attrs |-> [x |-> 0, y |-> 0, width |-> 120, height |-> 60],
                           bad |-> {}]]>>]

\* text and a nested graph model side by side, and the encoding order of draw.io
MixedDiagrams(m) ==
    {[name |-> "P", text |-> [layers |-> <<"b64", "deflate", "url">>, body |-> m, ws |-> FALSE],
      child |-> NoChild],
     [name |-> "P", text |-> [layers |-> <<>>, body |-> JunkBody, ws |-> FALSE], child |-> m],
     [name |-> "P", text |-> [layers |-> <<>>, body |-> m, ws |-> FALSE], child |-> GoodModel]}

DiagramsOf(m) ==
    {StoredCompressed(m), StoredBase64(m), StoredPlainText(m, FALSE), StoredPlainText(m, TRUE),
     StoredChild(m), StoredChildWs(m)} \cup MixedDiagrams(m)

\* the pages put after the first <diagram> of a container: the page of
\* GoodModel, and the same page with its cell under the id "a", an id that
\* cells of the first page bear as well
MorePages ==
    SeqsUpTo({StoredCompressed(GoodModel),
              StoredCompressed([GoodModel EXCEPT !.cells[3].id = "a"])}, MaxPages - 1)

DrawioDocs ==
    {[k |-> "xml", root |-> "mxfile", diagrams |-> <<d>> \o more] :
        d \in (UNION {DiagramsOf(m) : m \in GraphModels}) \cup UnreadableDiagrams,
        more \in MorePages}
    \cup {[k |-> "xml", root |-> "mxGraphModel", cells |-> m.cells] : m \in GraphModels}
    \cup {[k |-> "xml", root |-> "mxfile", diagrams |-> <<>>],
          [k |-> "xml", root |-> "other"], JunkText, [k |-> "json", top |-> "array"]}

\* the nodes given to diagram_write: node number i (from 1) has the id
\* NodeIds[i] or none, so that the ids of a list are distinct
NodeIds == <<"a", "b", "c", "d">>

NodeChoices(i) ==
    {[id |-> NodeIds[i], type |-> "rectangle", label |-> "L"],
     [id |-> NodeIds[i], type |-> "ellipse", label |-> ""],
     [id |-> NodeIds[i], type |-> "text", label |-> "T"],
     [id |-> NodeIds[i], type |-> "text", text |-> ""],
     [id |-> NodeIds[i], text |-> "X"],
     [type |-> "diamond", label |-> "L"]}

NodeLists ==
    UNION {{ns \in [1..n -> UNION {NodeChoices(i) : i \in 1..n}] :
              \A i \in 1..n : ns[i] \in NodeChoices(i)} : n \in 0..MaxNodes}

EdgeIds == <<"e1", "e2", "e3">>

\* the edges given to diagram_write: the ends and the label vary; the last
\* three supply their points, with and without a position of their own
EdgeChoices(i) ==
    {ends @@ [id |-> EdgeIds[i], label |-> l] :
        ends \in {[source |-> "a", target |-> "b"], [source |-> "b", target |-> "a"],
                  [source |-> "a", target |-> "a"], [source |-> "a", target |-> "zz"],
                  [source |-> None, target |-> "b"],
                  [source |-> "node-0", target |-> "b"], Null},
        l \in {"", "E"}}
    \cup {[id |-> EdgeIds[i], label |-> "", source |-> "a", target |-> "b",
            points |-> <<<<0, 0>>, <<10, 20>>, <<30, 20>>>>, x |-> 5, y |-> 7],
           [id |-> EdgeIds[i], label |-> "", source |-> "a", target |-> "zz",
            points |-> <<<<0, 0>>, <<10, 20>>, <<30, 20>>>>, x |-> 5, y |-> 7],
           [id |-> EdgeIds[i], label |-> "", source |-> "a", target |-> "b",
            points |-> <<<<0, 0>>, <<10, 20>>, <<30, 20>>>>]}

EdgeLists ==
    UNION {{es \in [1..n -> UNION {EdgeChoices(i) : i \in 1..n}] :
              \A i \in 1..n : es[i] \in EdgeChoices(i)} : n \in 0..MaxEdges}

-----------------------------------------------------------------------------
(* The actions: one per tool *)

Apply(o, c) ==
    /\ fs' = o.fs
    /\ dirs' = o.dirs
    /\ ret' = o.ret
    /\ raised' = o.raised
    /\ call' = c
    /\ ncalls' = ncalls + 1

\* server.py 361-386: the path is resolved first, and the tool reads the
\* file the path resolves to
DiagramRead(path) ==
    /\ Apply(IF Raises(ResolvePath(path)) THEN Escapes
             ELSE ReadOutcome(ResolvePath(path)),
             [op |-> "diagram_read", path |-> path])
    /\ UNCHANGED <<child, tmp>>

\* server.py 1031-1067
DiagramWrite(path, nodes, edges) ==
    /\ Apply(IF Raises(ResolvePath(path)) THEN Escapes
             ELSE WriteOutcome(ResolvePath(path), nodes, edges, "Page-1"),
             [op |-> "diagram_write", path |-> path, nodes |-> nodes, edges |-> edges])
    /\ UNCHANGED <<child, tmp>>

\* server.py 1489-1562
DiagramConvert(source_path, target_path) ==
    \E cairosvg \in BOOLEAN :
        /\ Apply(IF Raises(ResolvePath(source_path)) \/ Raises(ResolvePath(target_path))
                 THEN Escapes
                 ELSE ConvertOutcome(ResolvePath(source_path), ResolvePath(target_path),
                                     cairosvg),
                 [op |-> "diagram_convert", source |-> source_path,
                  target |-> target_path])
        /\ UNCHANGED <<child, tmp>>

\* server.py 1099-1187.  engine says how the renderer fares: its import
\* fails ("missing"), it raises ("fails"), it renders ("ok"), or it renders
\* a page that holds no <svg> ("nosvg")
DiagramRender(path, output_path) ==
    \E engine \in {"missing", "fails", "ok", "nosvg"} :
        /\ Apply(IF Raises(ResolvePath(path)) \/ Raises(ResolvePath(output_path))
                 THEN Escapes
                 ELSE IF ~Exists(ResolvePath(path))
                 THEN Outcome(fs, dirs, [error |-> "Source file not found"], NoRaise)
                 ELSE IF ~(\/ path.ext = "svg" /\ output_path.ext = "png"
                           \/ path.ext \in {"drawio", "xml", "excalidraw"})
                 THEN Outcome(fs, MkdirParent(ResolvePath(output_path)),
                              [error |-> "Unsupported rendering"], NoRaise)
                 ELSE IF engine = "missing"
                 THEN Outcome(fs, MkdirParent(ResolvePath(output_path)),
                              [error |-> "not installed"], NoRaise)
                 ELSE IF engine = "fails" \/ (path.ext = "svg" /\ fs[ResolvePath(path)].k # "xml")
                 THEN Outcome(fs, MkdirParent(ResolvePath(output_path)),
                              [error |-> "Failed to render diagram"],
                              Caught("Exception", "renderer"))
                 ELSE IF output_path.ext = "png"
                 THEN Outcome(WriteText(ResolvePath(output_path), [k |-> "png"]),
                              MkdirParent(ResolvePath(output_path)),
                              [success |-> TRUE, source |-> path,
                               output |-> ResolvePath(output_path)], NoRaise)
                 ELSE IF output_path.ext = "svg" /\ engine = "ok"
                 THEN Outcome(WriteText(ResolvePath(output_path),
                                        [k |-> "xml", root |-> "svg", parts |-> <<>>]),
                              MkdirParent(ResolvePath(output_path)),
                              [success |-> TRUE, source |-> path,
                               output |-> ResolvePath(output_path)], NoRaise)
                 ELSE IF output_path.ext = "svg"
                 THEN Outcome(WriteText([ResolvePath(output_path) EXCEPT !.ext = "png"],
                                        [k |-> "png"]),
                              MkdirParent(ResolvePath(output_path)),
                              [success |-> TRUE, warning |-> "created PNG instead",
                               output |-> [ResolvePath(output_path) EXCEPT !.ext = "png"]],
                              NoRaise)
                 ELSE Outcome(fs, MkdirParent(ResolvePath(output_path)),
                              [success |-> TRUE, source |-> path,
                               output |-> ResolvePath(output_path)], NoRaise),
                 [op |-> "diagram_render", path |-> path, output_path |-> output_path])
        /\ UNCHANGED <<child, tmp>>

\* server.py 1377-1460.  run says how the export goes: npx is not found
\* ("nonpx"), the child exits with an error ("exit1"), it exits having
\* written the image ("exit0") or nothing ("empty"), or it is still running
\* after 60 seconds ("timeout").  The temporary file is made before the
\* child is spawned and unlinked in the finally clause.
ExcalidrawVerify(path) ==
    \E run \in {"nonpx", "exit1", "exit0", "empty", "timeout"} :
        IF Raises(ResolvePath(path))
        THEN /\ Apply(Escapes, [op |-> "excalidraw_verify", path |-> path])
             /\ UNCHANGED <<child, tmp>>
        ELSE IF ~Exists(ResolvePath(path)) \/ path.ext # "excalidraw"
        THEN /\ Apply(Outcome(fs, dirs,
                              [error |-> IF ~Exists(ResolvePath(path))
                                         THEN "File not found"
                                         ELSE "Not an Excalidraw file"], NoRaise),
                      [op |-> "excalidraw_verify", path |-> path])
             /\ UNCHANGED <<child, tmp>>
        ELSE /\ Apply(Outcome(fs, dirs,
                              IF run = "exit0"
                              THEN [valid |-> TRUE, image |-> [k |-> "png"]]
                              ELSE [valid |-> FALSE, error |-> run],
                              IF run = "nonpx"
                              THEN Caught("FileNotFoundError", "create_subprocess_exec")
                              ELSE IF run = "timeout"
                              THEN Caught("TimeoutError", "wait_for")
                              ELSE NoRaise),
                      [op |-> "excalidraw_verify", path |-> path])
             /\ child' = IF run = "nonpx" THEN child
                         ELSE [state |-> IF run = "timeout" THEN "running" ELSE "exited",
                               out |-> <<"png", ncalls>>]
             /\ tmp' = tmp \ {<<"png", ncalls>>}

\* server.py 1605-1700, with run as above; on the timeout the child is
\* killed.  The two temporary files are made before the child is spawned
\* and unlinked in the finally clause.
DiagramFromMermaid(path, mermaid_code) ==
    \E run \in {"nonpx", "exit1", "exit0", "empty", "timeout"} :
        IF Raises(ResolvePath(path))
        THEN /\ Apply(Escapes, [op |-> "diagram_from_mermaid", path |-> path,
                                mermaid_code |-> mermaid_code])
             /\ UNCHANGED <<child, tmp>>
        ELSE IF path.ext # "excalidraw" \/ mermaid_code \in {"", " "}
        THEN /\ Apply(Outcome(fs, dirs,
                              [error |-> IF path.ext # "excalidraw"
                                         THEN "Output path must end with .excalidraw"
                                         ELSE "mermaid_code cannot be empty"], NoRaise),
                      [op |-> "diagram_from_mermaid", path |-> path,
                       mermaid_code |-> mermaid_code])
             /\ UNCHANGED <<child, tmp>>
        ELSE /\ Apply(IF run = "exit0"
                      THEN Outcome(WriteText(ResolvePath(path),
                                             [k |-> "json", top |-> "object",
                                              elements |-> <<HelloShape>>]),
                                   MkdirParent(ResolvePath(path)),
                                   [success |-> TRUE, path |-> ResolvePath(path),
                                    format |-> "excalidraw", element_count |-> 1],
                                   NoRaise)
                      ELSE Outcome(fs, dirs, [error |-> run],
                                   IF run = "nonpx"
                                   THEN Caught("FileNotFoundError", "create_subprocess_exec")
                                   ELSE NoRaise),
                      [op |-> "diagram_from_mermaid", path |-> path,
                       mermaid_code |-> mermaid_code])
             /\ child' = IF run = "nonpx" THEN child
                         ELSE [state |-> IF run = "timeout" THEN "killed" ELSE "exited",
                               out |-> <<"excalidraw", ncalls>>]
             /\ tmp' = tmp \ {<<"mmd", ncalls>>, <<"excalidraw", ncalls>>}

\* server.py 1390-1408: a child that was left running goes on; it may write
\* the file it was told to write, and it exits
ChildRuns ==
    /\ child.state = "running"
    /\ \E wrote \in BOOLEAN :
           tmp' = IF wrote THEN tmp \cup {child.out} ELSE tmp
    /\ child' = [child EXCEPT !.state = "exited"]
    /\ UNCHANGED <<fs, dirs, call, ret, raised, ncalls>>

\* a project directory that holds one file
OneFile(path, content) ==
    /\ fs = [p \in Paths \cup {[q EXCEPT !.dir = ".."] : q \in Paths} |->
               IF p = path THEN content ELSE NoFile]
    /\ dirs = {"."}
    /\ call = [op |-> "none"]
    /\ ret = Null
    /\ raised = NoRaise
    /\ ncalls = 0
    /\ child = [state |-> "none", out |-> <<>>]
    /\ tmp = {}

-----------------------------------------------------------------------------
(* Spec: the tools on a project directory that holds one source file *)

Init ==
    \E f \in
    {<<"excalidraw", [k |-> "json", top |-> "object", elements |-> els]>> :
        els \in {<<>>, <<[id |-> "f", type |-> "arrow"]>>,
                 <<[id |-> "t", type |-> "text", text |-> "Hello"]>>}}
    \cup {<<"excalidraw", JunkText>>, <<"excalidraw", [k |-> "json", top |-> "array"]>>,
          <<"drawio", JunkText>>,
          <<"drawio", [k |-> "xml", root |-> "mxfile",
                       diagrams |-> <<StoredCompressed(GoodModel)>>]>>,
          <<"svg", JunkText>>, <<"svg", CreateSvg(<<>>, <<>>)>>,
          <<"vsdx", JunkText>>} :
        OneFile(P(".", f[1]), f[2])

Next ==
    \/ /\ ncalls < MaxCalls
       /\ \E path \in Paths : DiagramRead(path)
    \/ /\ ncalls < MaxCalls
       /\ \E path \in Paths,
             a \in {<<<<>>, <<>>>>, <<InvalidJson, <<>>>>,
                    <<<<[id |-> "a", label |-> "A"]>>,
                      <<[id |-> "e1", source |-> None, target |-> None]>>>>} :
              DiagramWrite(path, a[1], a[2])
    \/ /\ ncalls < MaxCalls
       /\ \E source_path \in Paths, target_path \in Paths :
              DiagramConvert(source_path, target_path)

Spec == Init /\ [][Next]_vars

-----------------------------------------------------------------------------
(* SpecConfine: the six tools given paths inside and outside the project   *)
(* directory, and the child process of the two tools that spawn one        *)

NextConfine ==
    \/ /\ ncalls < MaxCalls
       /\ \E path \in [dir : {".", "..", "out/../..", "../proj", "/etc"},
                        ext : {"excalidraw", "svg"}] :
              \/ DiagramRead(path)
              \/ DiagramWrite(path, <<[id |-> "a", label |-> "A"]>>, <<>>)
              \/ ExcalidrawVerify(path)
              \/ \E mermaid_code \in {"", "graph TD; A-->B"} :
                     DiagramFromMermaid(path, mermaid_code)
    \/ /\ ncalls < MaxCalls
       /\ \E path \in [dir : {".", "..", "out/../..", "../proj", "/etc"},
                        ext : {"excalidraw", "svg"}],
             other \in [dir : {".", "out", "out/../.."}, ext : {"svg", "png"}] :
              \/ DiagramConvert(path, other)
              \/ DiagramConvert(other, path)
              \/ DiagramRender(path, other)
              \/ DiagramRender(other, path)
    \/ ChildRuns

SpecConfine == Init /\ [][NextConfine]_vars

-----------------------------------------------------------------------------
(* SpecParse: a parser, and the conversion into each format, applied to a  *)
(* document drawn from the bounded sets                                    *)

InitParse ==
    \/ \E doc \in ExcalidrawDocs : OneFile(P(".", "excalidraw"), doc)
    \/ \E doc \in DrawioDocs : OneFile(P(".", "drawio"), doc)

NextParse ==
    \/ /\ ncalls = 0
       /\ \E source_path \in {P(".", "excalidraw"), P(".", "drawio")} :
              DiagramRead(source_path)
    \/ /\ ncalls = 0
       /\ \E source_path \in {P(".", "excalidraw"), P(".", "drawio")},
             ext \in {"excalidraw", "drawio", "svg"} :
              DiagramConvert(source_path, P("out", ext))

SpecParse == InitParse /\ [][NextParse]_vars

-----------------------------------------------------------------------------
(* SpecGen: a generator applied to nodes and edges drawn from the bounded  *)
(* sets                                                                    *)

InitGen ==
    /\ fs = [p \in Paths \cup {[q EXCEPT !.dir = ".."] : q \in Paths} |-> NoFile]
    /\ dirs = {"."}
    /\ call = [op |-> "none"]
    /\ ret = Null
    /\ raised = NoRaise
    /\ ncalls = 0
    /\ child = [state |-> "none", out |-> <<>>]
    /\ tmp = {}

NextGen ==
    /\ ncalls = 0
    /\ \E ext \in {"excalidraw", "drawio", "svg"}, nodes \in NodeLists, edges \in EdgeLists :
          DiagramWrite(P(".", ext), nodes, edges)

SpecGen == InitGen /\ [][NextGen]_vars

-----------------------------------------------------------------------------
(* SpecRoute: the routing of connectors.  _create_excalidraw_json is given  *)
(* the box a at the origin and the box b on a grid around it, joined by an *)
(* edge in either direction with every pair of sides (null is no side       *)
(* given); _generate_curved_points and _generate_step_points are applied    *)
(* to the offsets of the grid.  Further writes carry labels of 5, 31 and    *)
(* 51 characters on a node and on an edge, and an edge of each curveStyle.  *)

MaxGrid == 2      \* the grid reaches from -MaxGrid to MaxGrid in x and in y

\* server.py 479-512, called with the arguments given
CallGenerateCurvedPoints(dx, dy, curve_direction) ==
    /\ Apply(Outcome(fs, dirs,
                     [points |-> GenerateCurvedPoints(dx, dy, curve_direction)], NoRaise),
             [op |-> "_generate_curved_points", dx |-> dx, dy |-> dy,
              curve_direction |-> curve_direction])
    /\ UNCHANGED <<child, tmp>>

\* server.py 515-522, called with the arguments given
CallGenerateStepPoints(dx, dy) ==
    /\ Apply(Outcome(fs, dirs, [points |-> GenerateStepPoints(dx, dy)], NoRaise),
             [op |-> "_generate_step_points", dx |-> dx, dy |-> dy])
    /\ UNCHANGED <<child, tmp>>

NextRoute ==
    \/ /\ ncalls = 0
       /\ \E gx \in -MaxGrid..MaxGrid, gy \in -MaxGrid..MaxGrid,
             ends \in {<<"a", "b">>, <<"b", "a">>},
             start_side \in {"top", "bottom", "left", "right", "auto", None},
             end_side \in {"top", "bottom", "left", "right", "auto", None} :
              DiagramWrite(P(".", "excalidraw"),
                           <<[id |-> "a", x |-> 0, y |-> 0, width |-> 100, height |-> 50],
                             [id |-> "b", x |-> gx * 100, y |-> gy * 100,
                              width |-> 100, height |-> 50]>>,
                           <<[id |-> "e1", source |-> ends[1], target |-> ends[2],
                              startSide |-> start_side, endSide |-> end_side]>>)
    \/ /\ ncalls = 0
       /\ \E gx \in -MaxGrid..MaxGrid, gy \in -MaxGrid..MaxGrid,
             curve_direction \in {"up", "down", "left", "right", "auto"} :
              CallGenerateCurvedPoints(gx * 50, gy * 50, curve_direction)
    \/ /\ ncalls = 0
       /\ \E gx \in -MaxGrid..MaxGrid, gy \in -MaxGrid..MaxGrid :
              CallGenerateStepPoints(gx * 50, gy * 50)
    \/ /\ ncalls = 0
       /\ \E label \in {"short", "xxxxxxxxxxxxxxxxxxxxxxxxxxxxxxx",
                         "yyyyyyyyyyyyyyyyyyyyyyyyyyyyyyyyyyyyyyyyyyyyyyyyyyy"},
             edge_label \in {"short", "xxxxxxxxxxxxxxxxxxxxxxxxxxxxxxx",
                              "yyyyyyyyyyyyyyyyyyyyyyyyyyyyyyyyyyyyyyyyyyyyyyyyyyy"},
             font \in {8, 16, 20} :
              DiagramWrite(P(".", "excalidraw"),
                           <<[id |-> "a", label |-> label, fontSize |-> font]>>,
                           <<[id |-> "e1", source |-> "a", target |-> "zz",
                              label |-> edge_label]>>)
    \/ /\ ncalls = 0
       /\ \E gx \in -MaxGrid..MaxGrid, gy \in -MaxGrid..MaxGrid,
             curve_style \in {"straight", "curved", "step"} :
              DiagramWrite(P(".", "excalidraw"),
                           <<[id |-> "a", x |-> 0, y |-> 0, width |-> 100, height |-> 50],
                             [id |-> "b", x |-> gx * 100, y |-> gy * 100,
                              width |-> 100, height |-> 50]>>,
                           <<[id |-> "e1", source |-> "a", target |-> "b",
                              curveStyle |-> curve_style]>>)

SpecRoute == InitGen /\ [][NextRoute]_vars

-----------------------------------------------------------------------------
(* Properties.  A property speaks of the call made last (call), of what it *)
(* returned (ret, raised) and of the files it left (fs, dirs).             *)

Supported == {"drawio", "xml", "excalidraw", "svg"}

IsDocument(result) == "format" \in DOMAIN result

Succeeded == "success" \in DOMAIN ret

\* the whiteboard document of one shape labelled "Hello"
HelloDoc == [k |-> "json", top |-> "object", elements |-> <<HelloShape, HelloText>>]

\* the <mxCell> elements of a container of one page
CellsOf(content) == content.diagrams[1].child.cells

ValueCells(cells) == {i \in 1..Len(cells) : Truthy(Get(cells[i], "value", ""))}

EdgeCells(cells) == {i \in 1..Len(cells) : "edge" \in DOMAIN cells[i]}

\* C1: converting the whiteboard document of one shape labelled "Hello" (the
\* shape and its bound text, no arrows) to .drawio succeeds and writes exactly
\* one cell that bears a value, the value is "Hello", and no edge cell.
C1_HelloBecomesOneCell ==
    (/\ call.op = "diagram_convert"
     /\ call.source.ext = "excalidraw" /\ call.target.ext = "drawio"
     /\ fs[call.source] = HelloDoc)
    => /\ Succeeded
       /\ Cardinality(ValueCells(CellsOf(fs[call.target]))) = 1
       /\ \A i \in ValueCells(CellsOf(fs[call.target])) :
              CellsOf(fs[call.target])[i].value = "Hello"
       /\ EdgeCells(CellsOf(fs[call.target])) = {}

\* the id, the kind and the label text of a node and of an edge
NodeEssence(node) ==
    [id |-> node.id,
     kind |-> Get(node, "type", Get(node, "style", "")),
     label |-> Get(node, "label", Get(node, "text", ""))]

EdgeEssence(edge) ==
    [id |-> edge.id,
     kind |-> Get(edge, "type", "edge"),
     label |-> Get(edge, "label", "")]

Essence(result) ==
    [nodes |-> [i \in 1..Len(AllNodes(result)) |-> NodeEssence(AllNodes(result)[i])],
     edges |-> [i \in 1..Len(AllEdges(result)) |-> EdgeEssence(AllEdges(result)[i])]]

\* C2: a document parsed from a .drawio or .excalidraw file, generated in the
\* same format and parsed again, has the same nodes and edges: the same ids,
\* the same kinds (an edge's type, arrow or line, included) and the same
\* label text.
C2_SameFormatRoundTrip ==
    (/\ call.op = "diagram_convert"
     /\ call.source.ext = call.target.ext
     /\ call.source # call.target
     /\ IsDocument(ParseFile(call.source.ext, fs[call.source])))
    => /\ Succeeded
       /\ IsDocument(ParseFile(call.target.ext, fs[call.target]))
       /\ Essence(ParseFile(call.target.ext, fs[call.target]))
            = Essence(ParseFile(call.source.ext, fs[call.source]))

\* an end of the edge is missing, null or empty, or names no node
Dangling(nodes, edge) ==
    \E end \in {"source", "target"} :
        \/ ~Truthy(Get(edge, end, None))
        \/ \A i \in 1..Len(nodes) : Get(nodes[i], "id", None) # edge[end]

\* C3: a generator given an edge whose source or target is missing, null or
\* names no node returns a document and does not raise: the write succeeds.
C3_GenerationNeverFails ==
    (/\ call.op = "diagram_write"
     /\ call.path.ext \in Supported
     /\ \E i \in 1..Len(call.edges) : Dangling(call.nodes, call.edges[i]))
    => /\ raised = NoRaise
       /\ Succeeded

Parsers == {"_read_drawio", "_read_excalidraw", "_read_svg"}

\* C4: no parser raises into diagram_read or diagram_convert: whatever the
\* text of the file, the parser returns a document or an error value.
C4_NoParserRaises ==
    raised.exc # NoException => raised.in \notin Parsers

\* a call of diagram_convert is about to parse a source that its parser
\* answers with an error value
ParseErrorAhead(c) ==
    /\ c.op = "diagram_convert"
    /\ Exists(c.source)
    /\ c.source.ext \in {"drawio", "xml", "excalidraw"}
    /\ IsError(ParseFile(c.source.ext, fs[c.source]))

\* C5: when the parser of the source returns an error, diagram_convert
\* returns that error object unchanged, and it neither writes a file nor
\* creates a directory.
C5_ParseErrorPropagates ==
    [][(ncalls' = ncalls + 1 /\ ParseErrorAhead(call'))
       => /\ ret' = ParseFile(call'.source.ext, fs[call'.source])
          /\ fs' = fs
          /\ dirs' = dirs]_vars

\* C5, reached: a conversion into a directory that does not exist returned
\* the parser's "Invalid JSON" and left the directory and the target absent.
C5_Witness ==
    /\ call.op = "diagram_convert"
    /\ call.target.dir = "out"
    /\ call.target.ext = "drawio"
    /\ ret = [error |-> "Invalid JSON"]
    /\ "out" \notin dirs
    /\ ~Exists(call.target)

\* a call that names an extension no parser and no generator knows
UnsupportedCall(c) ==
    \/ c.op = "diagram_read" /\ c.path.ext \notin Supported
    \/ c.op = "diagram_write" /\ c.path.ext \notin Supported
    \/ /\ c.op = "diagram_convert"
       /\ \/ c.source.ext \notin Supported
          \/ c.target.ext \notin Supported \cup {"png"}

\* C6: a call that names an unsupported extension returns an error and
\* leaves the file system as it was: no file written, no directory created.
C6_UnsupportedNoPartialWork ==
    [][(ncalls' = ncalls + 1 /\ UnsupportedCall(call'))
       => /\ IsError(ret')
          /\ fs' = fs
          /\ dirs' = dirs]_vars

\* a <diagram> that stores its graph model as plain XML: as its text, or as
\* a nested <mxGraphModel> child with no text or whitespace around it
PlainText(diagram) ==
    /\ HasText(diagram) /\ ~HasChild(diagram)
    /\ diagram.text.layers = <<>> /\ diagram.text.body.xml

PlainChild(diagram) ==
    /\ HasChild(diagram)
    /\ \/ ~HasText(diagram)
       \/ diagram.text = [layers |-> <<>>, body |-> EmptyBody, ws |-> TRUE]

PlainModel(diagram) == IF PlainText(diagram) THEN diagram.text.body ELSE diagram.child

\* the container with the model of its first <diagram> stored compressed
Compressed(content) ==
    [content EXCEPT !.diagrams[1] = StoredCompressed(PlainModel(content.diagrams[1]))]

IsContainer(content) == content.k = "xml" /\ content.root = "mxfile"

\* C7: _read_drawio yields for a graph model stored as plain XML (text or
\* nested child, with or without whitespace) what it yields for the same
\* model stored URL-encoded, Base64-encoded and deflated.
C7_PlainAsCompressed ==
    (/\ call.op = "diagram_read"
     /\ call.path.ext = "drawio"
     /\ IsContainer(fs[call.path])
     /\ fs[call.path].diagrams # <<>>
     /\ PlainText(fs[call.path].diagrams[1]) \/ PlainChild(fs[call.path].diagrams[1]))
    => ReadDrawio(fs[call.path]) = ReadDrawio(Compressed(fs[call.path]))

\* the text of the <diagram> decodes to XML
TextDecodes(diagram) ==
    /\ TextTruthy(diagram)
    /\ ~Raises(XmlFromString(DecodeDrawioData(Strip(diagram.text))))

\* C8: for every <diagram> of a container the first strategy that yields
\* XML determines the diagram (the text before the nested child), and the
\* read never ends in an error whatever the strategies yield.
C8_FirstStrategyWins ==
    (/\ call.op = "diagram_read"
     /\ call.path.ext = "drawio"
     /\ IsContainer(fs[call.path]))
    => /\ IsDocument(ret)
       /\ \A i \in 1..Len(fs[call.path].diagrams) :
              TextDecodes(fs[call.path].diagrams[i])
              => ReadDiagram(fs[call.path].diagrams[i])
                   = ParseText(fs[call.path].diagrams[i])

\* the call wrote a whiteboard document
WroteExcalidraw ==
    /\ call.op = "diagram_write"
    /\ call.path.ext = "excalidraw"
    /\ Succeeded

\* the elements of the document written
Written == fs[call.path].elements

WithId(elements, id) == {k \in 1..Len(elements) : elements[k].id = id}

ContainedIn(elements, id) ==
    {k \in 1..Len(elements) : Get(elements[k], "containerId", None) = id}

TextRefs(elem) == {r \in Range(elem.boundElements) : r.type = "text"}

\* exactly one element has the id, and exactly n elements name it as container
OneWith(elements, id, n) ==
    /\ Cardinality(WithId(elements, id)) = 1
    /\ Cardinality(ContainedIn(elements, id)) = n

\* what a node of kind text, a labelled node and an unlabelled node yield
TextNodeYield(elements, node, id) ==
    /\ OneWith(elements, id, 0)
    /\ \A k \in WithId(elements, id) :
           /\ elements[k].type = "text"
           /\ elements[k].containerId = None

LabelledYield(elements, owner, id, label) ==
    /\ OneWith(elements, id, 1)
    /\ \A k \in WithId(elements, id), t \in ContainedIn(elements, id) :
           /\ elements[k].type = owner
           /\ elements[t].type = "text"
           /\ elements[t].text = label
           /\ TextRefs(elements[k]) = {[type |-> "text", id |-> elements[t].id]}

UnlabelledYield(elements, owner, id) ==
    /\ OneWith(elements, id, 0)
    /\ \A k \in WithId(elements, id) :
           /\ elements[k].type = owner
           /\ TextRefs(elements[k]) = {}

NodeYield(elements, node, i) ==
    IF Get(node, "type", "rectangle") = "text"
    THEN TextNodeYield(elements, node, NodeElemId(node, i))
    ELSE IF Truthy(NodeLabel(node))
    THEN LabelledYield(elements, Get(node, "type", "rectangle"),
                       NodeElemId(node, i), NodeLabel(node))
    ELSE UnlabelledYield(elements, Get(node, "type", "rectangle"), NodeElemId(node, i))

EdgeYield(elements, edge, i) ==
    IF Truthy(Get(edge, "label", ""))
    THEN LabelledYield(elements, "arrow", ArrowId(edge, i), edge.label)
    ELSE UnlabelledYield(elements, "arrow", ArrowId(edge, i))

\* the element is the shape or the arrow of the id, or the text it contains
Yielded(elem, id) == elem.id = id \/ Get(elem, "containerId", None) = id

\* C9: in the document _create_excalidraw_json returns, a labelled node that
\* is no text yields exactly a shape and a text linked both ways (the shape
\* lists the text, the text names the shape as container and bears the
\* label), a node of kind text yields exactly one text element with no
\* container, an unlabelled node yields exactly one shape with no bound
\* text, and the text of an edge label names its arrow as container and is
\* listed by the arrow; the document holds no other element.
C9_LabelsLinkedBothWays ==
    WroteExcalidraw
    => /\ \A i \in 1..Len(call.nodes) : NodeYield(Written, call.nodes[i], i - 1)
       /\ \A j \in 1..Len(call.edges) : EdgeYield(Written, call.edges[j], j - 1)
       /\ \A k \in 1..Len(Written) :
              \/ \E i \in 1..Len(call.nodes) :
                     Yielded(Written[k], NodeElemId(call.nodes[i], i - 1))
              \/ \E j \in 1..Len(call.edges) :
                     Yielded(Written[k], ArrowId(call.edges[j], j - 1))

\* C9, reached: a document written from a labelled shape, a node of kind
\* text and a labelled edge.
C9_Witness ==
    /\ WroteExcalidraw
    /\ Len(call.nodes) = 2 /\ Len(call.edges) = 1
    /\ Get(call.nodes[1], "type", "") = "rectangle" /\ NodeLabel(call.nodes[1]) = "L"
    /\ Get(call.nodes[2], "type", "") = "text"
    /\ call.edges[1].label = "E"
    /\ Len(Written) = 5

Bindings(elem) ==
    {b \in {elem.startBinding, elem.endBinding} : b # Null}

\* C10: in the document _create_excalidraw_json returns, the element that a
\* binding of an arrow names exists, and every element of that id lists
\* {type: arrow, id: the arrow's id} in its boundElements, whatever the
\* order of the nodes and the direction of the edges.
C10_BoundShapesListArrows ==
    WroteExcalidraw
    => \A k \in 1..Len(Written) :
           Written[k].type = "arrow"
           => \A b \in Bindings(Written[k]) :
                  /\ WithId(Written, b.elementId) # {}
                  /\ \A m \in WithId(Written, b.elementId) :
                         [type |-> "arrow", id |-> Written[k].id]
                             \in Range(Written[m].boundElements)

\* C10, reached: an arrow bound from a node to the node before it in the
\* list, both of which list the arrow.
C10_Witness ==
    /\ WroteExcalidraw
    /\ \E k \in 1..Len(Written) :
           /\ Written[k].type = "arrow"
           /\ Written[k].startBinding # Null
           /\ Written[k].startBinding.elementId = "b"
           /\ Written[k].endBinding.elementId = "a"
           /\ \A m \in WithId(Written, "a") \cup WithId(Written, "b") :
                  [type |-> "arrow", id |-> Written[k].id]
                      \in Range(Written[m].boundElements)

\* both ends of the edge name nodes of the input
Resolved(nodes, edge) == ~Dangling(nodes, edge)

\* the point lies on the outline of the element's box, not inside it
OnBoundary(x, y, elem) ==
    /\ elem.x <= x /\ x <= elem.x + elem.width
    /\ elem.y <= y /\ y <= elem.y + elem.height
    /\ (x \in {elem.x, elem.x + elem.width} \/ y \in {elem.y, elem.y + elem.height})

LastPoint(elem) == elem.points[Len(elem.points)]

\* C11: in the document _create_excalidraw_json returns, the arrow of an edge
\* whose source and target name nodes and that supplies no points starts on
\* the boundary of the emitted element of its source and ends on the boundary
\* of the emitted element of its target, also for nodes that omit x, y, width
\* or height.
C11_AnchorsOnBoundary ==
    WroteExcalidraw
    => \A j \in 1..Len(call.edges) :
           (Resolved(call.nodes, call.edges[j]) /\ "points" \notin DOMAIN call.edges[j])
           => \A k \in WithId(Written, call.edges[j].id),
                 s \in WithId(Written, call.edges[j].source),
                 t \in WithId(Written, call.edges[j].target) :
                  /\ OnBoundary(Written[k].x, Written[k].y, Written[s])
                  /\ OnBoundary(Written[k].x + LastPoint(Written[k])[1],
                                Written[k].y + LastPoint(Written[k])[2], Written[t])

\* the edge supplies a list of points that is not empty
Pointed(edge) == "points" \in DOMAIN edge /\ edge.points # <<>>

\* C12: the arrow of an edge that supplies a non-empty list of points bears
\* exactly those points, and its position is the x and y the edge supplies
\* (0 and 130 where it supplies none), not a computed start anchor, whether
\* or not the ends of the edge name nodes.
C12_ExplicitPointsKept ==
    WroteExcalidraw
    => \A j \in 1..Len(call.edges) :
           Pointed(call.edges[j])
           => \A k \in WithId(Written, call.edges[j].id) :
                  /\ Written[k].points = call.edges[j].points
                  /\ Written[k].x = Get(call.edges[j], "x", 0)
                  /\ Written[k].y = Get(call.edges[j], "y", 130)

\* the call generated a vector-graphics document
WroteSvg == call.op = "diagram_write" /\ call.path.ext = "svg"

Tagged(parts, tag) == {k \in 1..Len(parts) : parts[k].tag = tag}

LabelledNodes(nodes) == {i \in 1..Len(nodes) : Truthy(NodeLabel(nodes[i]))}

\* the id names a node: it is the id of a node, or it is node-<i> and the
\* node at position i (from 0) carries no id
NamesNode(nodes, id) ==
    \E i \in 1..Len(nodes) :
        IF "id" \in DOMAIN nodes[i] THEN nodes[i].id = id
        ELSE id = "node-" \o ToString(i - 1)

BothEndsName(nodes, edge) ==
    /\ Truthy(Get(edge, "source", None)) /\ NamesNode(nodes, edge.source)
    /\ Truthy(Get(edge, "target", None)) /\ NamesNode(nodes, edge.target)

\* C13 as stated: _create_svg does not raise, and it emits a line for an
\* edge exactly when its source and its target are ids of nodes of the input:
\* as many lines as such edges, and no text beyond the labels of the nodes
\* and of such edges.
C13_LineIffEndsAreIds ==
    WroteSvg
    => /\ Succeeded
       /\ Cardinality(Tagged(fs[call.path].parts, "line"))
            = Cardinality({j \in 1..Len(call.edges) : Resolved(call.nodes, call.edges[j])})
       /\ Cardinality(Tagged(fs[call.path].parts, "text"))
            = Cardinality(LabelledNodes(call.nodes))
              + Cardinality({j \in 1..Len(call.edges) :
                               /\ Resolved(call.nodes, call.edges[j])
                               /\ Truthy(Get(call.edges[j], "label", ""))})

\* C13, amended: _create_svg does not raise, and it emits a line for an edge
\* exactly when its source and its target name nodes of the input, a node
\* without an id being named node-<i> by its position i (from 0): as many
\* lines as such edges, and no text beyond the labels of the nodes and of
\* such edges.
C13_LineIffEndsNameNodes ==
    WroteSvg
    => /\ Succeeded
       /\ Cardinality(Tagged(fs[call.path].parts, "line"))
            = Cardinality({j \in 1..Len(call.edges) : BothEndsName(call.nodes, call.edges[j])})
       /\ Cardinality(Tagged(fs[call.path].parts, "text"))
            = Cardinality(LabelledNodes(call.nodes))
              + Cardinality({j \in 1..Len(call.edges) :
                               /\ BothEndsName(call.nodes, call.edges[j])
                               /\ Truthy(Get(call.edges[j], "label", ""))})

\* C13, reached: a document generated from a node a and a labelled edge from
\* a to an id of no node holds no line and no text.
C13_Witness ==
    /\ WroteSvg /\ Succeeded
    /\ Len(call.nodes) = 1 /\ Len(call.edges) = 1
    /\ Get(call.nodes[1], "id", None) = "a" /\ ~Truthy(NodeLabel(call.nodes[1]))
    /\ Get(call.edges[1], "source", None) = "a"
    /\ Get(call.edges[1], "target", None) = "zz"
    /\ call.edges[1].label = "E"
    /\ Tagged(fs[call.path].parts, "line") = {}
    /\ Tagged(fs[call.path].parts, "text") = {}

\* the classes of a cell, as the claim states them
Reserved(cell) == Get(cell, "id", "") \in {"0", "1"}

EdgeClass(cell) ==
    /\ ~Reserved(cell)
    /\ Get(cell, "source", "") # "" /\ Get(cell, "target", "") # ""

NodeClass(cell) ==
    /\ ~Reserved(cell) /\ ~EdgeClass(cell)
    /\ (Get(cell, "value", "") # "" \/ Get(cell, "vertex", "") = "1")

\* the ids of the cells at the positions idx, in the order of the cells
IdsAt(cells, idx) ==
    [n \in 1..Cardinality(idx) |->
        Get(cells[CHOOSE i \in idx : Cardinality({k \in idx : k <= i}) = n], "id", "")]

IdsOf(items) == [n \in 1..Len(items) |-> items[n].id]

\* a read of a file whose root is a bare graph model
ReadBareModel ==
    /\ call.op = "diagram_read" /\ call.path.ext = "drawio"
    /\ fs[call.path].k = "xml" /\ fs[call.path].root = "mxGraphModel"

\* C14: of the cells of a graph model, those of id 0 or 1 are skipped
\* whatever else they carry, every other cell with a non-empty source and a
\* non-empty target becomes an edge (also when it has a value or the vertex
\* flag), every other cell with a non-empty value or vertex = 1 becomes a
\* node, and the rest are dropped; total_nodes + total_edges does not exceed
\* the number of cells that are not reserved.
C14_CellsClassified ==
    ReadBareModel
    => /\ IsDocument(ret)
       /\ Len(ret.diagrams) = 1
       /\ IdsOf(ret.diagrams[1].nodes)
            = IdsAt(fs[call.path].cells,
                    {i \in 1..Len(fs[call.path].cells) : NodeClass(fs[call.path].cells[i])})
       /\ IdsOf(ret.diagrams[1].edges)
            = IdsAt(fs[call.path].cells,
                    {i \in 1..Len(fs[call.path].cells) : EdgeClass(fs[call.path].cells[i])})
       /\ ret.metadata.total_nodes + ret.metadata.total_edges
            <= Cardinality({i \in 1..Len(fs[call.path].cells) :
                              ~Reserved(fs[call.path].cells[i])})

\* a read of a whiteboard file whose elements are all objects
ReadWhiteboard ==
    /\ call.op = "diagram_read" /\ call.path.ext = "excalidraw"
    /\ fs[call.path].k = "json" /\ fs[call.path].top = "object"
    /\ "elements" \in DOMAIN fs[call.path]
    /\ \A i \in 1..Len(fs[call.path].elements) : IsDict(fs[call.path].elements[i])

Connectors(elements) ==
    {i \in 1..Len(elements) : Get(elements[i], "type", "") \in {"arrow", "line"}}

\* the n-th of the elements at the positions idx
ElemAt(elements, idx, n) ==
    elements[CHOOSE i \in idx : Cardinality({k \in idx : k <= i}) = n]

\* the element id a binding names, null when the binding is absent
BoundId(elem, binding) ==
    IF Get(elem, binding, Null) = Null THEN None
    ELSE Get(elem[binding], "elementId", None)

\* C15: _read_excalidraw maps every element to exactly one node or one edge:
\* an arrow or a line to an edge whose source and target are the ids its
\* bindings name (null without a binding), a text to a node bearing its text
\* (the empty text too), any other element to a shape node without label or
\* text; so node_count + edge_count = element_count.
C15_EveryElementMapped ==
    ReadWhiteboard
    => /\ IsDocument(ret)
       /\ ret.metadata.element_count = Len(fs[call.path].elements)
       /\ ret.metadata.node_count + ret.metadata.edge_count = ret.metadata.element_count
       /\ IdsOf(ret.edges) = IdsAt(fs[call.path].elements, Connectors(fs[call.path].elements))
       /\ IdsOf(ret.nodes)
            = IdsAt(fs[call.path].elements,
                    (1..Len(fs[call.path].elements)) \ Connectors(fs[call.path].elements))
       /\ \A n \in 1..Len(ret.edges) :
              /\ ret.edges[n].source
                   = BoundId(ElemAt(fs[call.path].elements,
                                    Connectors(fs[call.path].elements), n), "startBinding")
              /\ ret.edges[n].target
                   = BoundId(ElemAt(fs[call.path].elements,
                                    Connectors(fs[call.path].elements), n), "endBinding")
       /\ \A n \in 1..Len(ret.nodes) :
              IF ret.nodes[n].type = "text" THEN "text" \in DOMAIN ret.nodes[n]
              ELSE DOMAIN ret.nodes[n] \cap {"text", "label"} = {}

NoRepeats(s) == \A i, j \in 1..Len(s) : s[i] = s[j] => i = j

\* the non-empty label and text strings of the document read
TextsFound(content, result) ==
    IF result.format = "excalidraw"
    THEN {content.elements[i].text :
            i \in {k \in 1..Len(Get(content, "elements", <<>>)) :
                     /\ Get(content.elements[k], "type", "") = "text"
                     /\ Get(content.elements[k], "text", "") # ""}}
    ELSE IF result.format = "drawio"
    THEN {item.label : item \in {x \in Range(AllNodes(result)) \cup Range(AllEdges(result)) :
                                   x.label # ""}}
    ELSE {content.parts[i].text :
            i \in {k \in 1..Len(Get(content, "parts", <<>>)) :
                     content.parts[k].tag = "text"}}

\* C16: the text_content list a parser returns holds no string twice and
\* holds every non-empty label and text string of the document, also when
\* the same text occurs in several elements.
C16_TextContentDeduplicated ==
    (call.op = "diagram_read" /\ IsDocument(ret))
    => /\ NoRepeats(ret.text_content)
       /\ TextsFound(fs[call.path], ret) \subseteq Range(ret.text_content)

\* the ids of the nodes and edges of every diagram of the parsed source are
\* pairwise distinct
SourceIdsUnique(result) ==
    IF result.format = "drawio"
    THEN \A d \in 1..Len(result.diagrams) :
             NoRepeats(IdsOf(result.diagrams[d].nodes) \o IdsOf(result.diagrams[d].edges))
    ELSE NoRepeats(IdsOf(result.nodes) \o IdsOf(result.edges))

\* the cells or elements of a generated document
Items(content) ==
    IF content.k = "json" THEN content.elements ELSE CellsOf(content)

\* C17: when the ids are unique within each diagram of the source, the cells
\* or elements of the document diagram_convert writes have pairwise distinct
\* ids, also when the source is a container of several pages flattened into
\* one set of nodes and edges.
C17_GeneratedIdsUnique ==
    (/\ call.op = "diagram_convert" /\ Succeeded
     /\ call.target.ext \in {"drawio", "excalidraw"}
     /\ SourceIdsUnique(ParseFile(call.source.ext, fs[call.source])))
    => NoRepeats(IdsOf(Items(fs[call.target])))

\* the box of a node that supplies its geometry, and the middle of a side
BoxOf(node) == [x |-> node.x, y |-> node.y, w |-> node.width, h |-> node.height]

SideMid(box, side) ==
    CASE side = "top" -> <<box.x + box.w \div 2, box.y>>
      [] side = "bottom" -> <<box.x + box.w \div 2, box.y + box.h>>
      [] side = "left" -> <<box.x, box.y + box.h \div 2>>
      [] side = "right" -> <<box.x + box.w, box.y + box.h \div 2>>

Explicit(side) == side \in {"top", "bottom", "left", "right"}

\* the side the source is left by and the side the target is met on when
\* none is given, for the offset (dx, dy) from centre to centre
LeavingSide(dx, dy) ==
    IF Abs(dx) > Abs(dy) THEN (IF dx > 0 THEN "right" ELSE "left")
    ELSE (IF dy > 0 THEN "bottom" ELSE "top")

FacingSide(dx, dy) ==
    IF Abs(dx) > Abs(dy) THEN (IF dx > 0 THEN "left" ELSE "right")
    ELSE (IF dy > 0 THEN "top" ELSE "bottom")

CentreX(box) == box.x + box.w \div 2
CentreY(box) == box.y + box.h \div 2

\* the anchors of an arrow from the box src to the box tgt
AnchorsAsStated(arrow, src, tgt, start_side, end_side) ==
    /\ <<arrow.x, arrow.y>>
         = SideMid(src, IF Explicit(start_side) THEN start_side
                        ELSE LeavingSide(CentreX(tgt) - CentreX(src),
                                         CentreY(tgt) - CentreY(src)))
    /\ <<arrow.x + LastPoint(arrow)[1], arrow.y + LastPoint(arrow)[2]>>
         = SideMid(tgt, IF Explicit(end_side) THEN end_side
                        ELSE FacingSide(CentreX(tgt) - CentreX(src),
                                        CentreY(tgt) - CentreY(src)))

NodeOf(nodes, id) == nodes[CHOOSE i \in 1..Len(nodes) : nodes[i].id = id]

\* C18: the arrow _create_excalidraw_json emits for an edge between two
\* placed boxes starts at the midpoint of the given side of the source and
\* ends at the midpoint of the given side of the target, whatever the
\* direction of travel; with no side given and the offset (dx, dy) between
\* the centres it leaves by the right (dx > 0) or left side when
\* |dx| > |dy| and by the bottom (dy > 0) or top side otherwise, the tie
\* included, and meets the target on the facing side.
C18_AnchorsResolved ==
    (WroteExcalidraw /\ "startSide" \in DOMAIN call.edges[1])
    => \A k \in WithId(Written, call.edges[1].id) :
           AnchorsAsStated(Written[k],
                           BoxOf(NodeOf(call.nodes, call.edges[1].source)),
                           BoxOf(NodeOf(call.nodes, call.edges[1].target)),
                           call.edges[1].startSide, call.edges[1].endSide)

\* C18, reached: an arrow told to start at the top leaves the box x = 0,
\* y = 0, w = 100, h = 50 at (50, 0) although its target lies below.
C18_Witness ==
    /\ WroteExcalidraw
    /\ Len(call.edges) = 1 /\ "startSide" \in DOMAIN call.edges[1]
    /\ call.edges[1].source = "a" /\ call.edges[1].startSide = "top"
    /\ call.nodes[2].x = 100 /\ call.nodes[2].y = 100
    /\ \A k \in WithId(Written, "e1") : Written[k].x = 50 /\ Written[k].y = 0

\* 0.2 * n, exact on the multiples of 5
Fifth(n) == (n * 2) \div 10

\* the middle point of a curved path, displaced by (ox, oy) from the middle
\* of the straight path
MidPoint(dx, dy, ox, oy) == <<dx \div 2 + ox, dy \div 2 + oy>>

\* the displacement of the middle point the claim states for a direction
Displacement(dx, dy, curve_direction) ==
    CASE curve_direction = "up" -> <<0, -Fifth(Max(Abs(dx), Abs(dy)))>>
      [] curve_direction = "down" -> <<0, Fifth(Max(Abs(dx), Abs(dy)))>>
      [] curve_direction = "left" -> <<-Fifth(Max(Abs(dx), Abs(dy))), 0>>
      [] curve_direction = "right" -> <<Fifth(Max(Abs(dx), Abs(dy))), 0>>
      [] curve_direction = "auto" ->
             IF Abs(dx) > Abs(dy) THEN <<0, Fifth(Max(Abs(dx), Abs(dy)))>>
             ELSE <<-Fifth(Max(Abs(dx), Abs(dy))), 0>>

\* C19: _generate_curved_points(dx, dy, direction) returns the three points
\* [0,0], mid, [dx,dy], mid being (dx/2, dy/2) displaced by
\* 0.2 * max(|dx|,|dy|): up y - offset, down y + offset, left x - offset,
\* right x + offset, auto y + offset when |dx| > |dy| and x - offset
\* otherwise; (100, 0, auto) gives the middle (50, 20) and (0, 100, auto)
\* the middle (-20, 50).
C19_CurvedPoints ==
    call.op = "_generate_curved_points"
    => /\ ret.points
            = <<<<0, 0>>,
                MidPoint(call.dx, call.dy,
                         Displacement(call.dx, call.dy, call.curve_direction)[1],
                         Displacement(call.dx, call.dy, call.curve_direction)[2]),
                <<call.dx, call.dy>>>>
       /\ (call.dx = 100 /\ call.dy = 0 /\ call.curve_direction = "auto")
          => ret.points[2] = <<50, 20>>
       /\ (call.dx = 0 /\ call.dy = 100 /\ call.curve_direction = "auto")
          => ret.points[2] = <<-20, 50>>

\* C19, reached: the curved path for (100, 100, auto), a tie, bends to the
\* left: its middle point is (30, 50).
C19_Witness ==
    /\ call.op = "_generate_curved_points"
    /\ call.dx = 100 /\ call.dy = 100 /\ call.curve_direction = "auto"
    /\ ret.points = <<<<0, 0>>, <<30, 50>>, <<100, 100>>>>

AxisAligned(p, q) == p[1] = q[1] \/ p[2] = q[2]

\* C20: _generate_step_points(dx, dy) returns three points from [0,0] to
\* [dx,dy] whose two segments are each parallel to an axis: the corner is
\* [0,dy] when |dy| > |dx| and [dx,0] otherwise, the tie included; (100, 50)
\* gives the corner [100,0] and (50, 100) the corner [0,100].
C20_StepPoints ==
    call.op = "_generate_step_points"
    => /\ Len(ret.points) = 3
       /\ ret.points[1] = <<0, 0>> /\ ret.points[3] = <<call.dx, call.dy>>
       /\ AxisAligned(ret.points[1], ret.points[2])
       /\ AxisAligned(ret.points[2], ret.points[3])
       /\ ret.points[2] = IF Abs(call.dy) > Abs(call.dx) THEN <<0, call.dy>>
                          ELSE <<call.dx, 0>>
       /\ (call.dx = 100 /\ call.dy = 50) => ret.points[2] = <<100, 0>>
       /\ (call.dx = 50 /\ call.dy = 100) => ret.points[2] = <<0, 100>>

\* C20, reached: the step path for (50, 100) turns at [0,100].
C20_Witness ==
    /\ call.op = "_generate_step_points"
    /\ call.dx = 50 /\ call.dy = 100
    /\ ret.points = <<<<0, 0>>, <<0, 100>>, <<50, 100>>>>

\* the text elements that bear a label: those with a container
LabelTexts(elements) ==
    {k \in 1..Len(elements) :
        elements[k].type = "text" /\ Get(elements[k], "containerId", None) # None}

\* C21: in the document _create_excalidraw_json returns, the text element of
\* a label (the bound text of a node, the text of an edge label) has a font
\* size of at most 10 when the label is longer than 50 characters and of at
\* most 12 when it is longer than 30 characters.
C21_LongLabelsShrink ==
    WroteExcalidraw
    => \A k \in LabelTexts(Written) :
           /\ Len(Written[k].text) > 50 => Written[k].fontSize <= 10
           /\ Len(Written[k].text) > 30 => Written[k].fontSize <= 12

\* the n-th of the parts that carry one of the tags
NthTagged(parts, tags, n) ==
    parts[CHOOSE k \in 1..Len(parts) :
            /\ parts[k].tag \in tags
            /\ Cardinality({j \in 1..k : parts[j].tag \in tags}) = n]

\* the shape drawn for the node that the id names
ShapeNamed(parts, nodes, id) ==
    NthTagged(parts, {"rect", "ellipse", "polygon"},
              SetMax({i \in 1..Len(nodes) :
                        IF "id" \in DOMAIN nodes[i] THEN nodes[i].id = id
                        ELSE id = "node-" \o ToString(i - 1)}, 0))

RightCentre(shape) ==
    IF shape.tag = "rect" THEN <<shape.x + shape.width, shape.y + Half(shape.height)>>
    ELSE IF shape.tag = "ellipse" THEN <<shape.cx + shape.rx, shape.cy>>
    ELSE shape.points[2]

LeftCentre(shape) ==
    IF shape.tag = "rect" THEN <<shape.x, shape.y + Half(shape.height)>>
    ELSE IF shape.tag = "ellipse" THEN <<shape.cx - shape.rx, shape.cy>>
    ELSE shape.points[4]

\* the n-th of the edges whose ends both name nodes
NthJoining(nodes, edges, n) ==
    edges[CHOOSE j \in 1..Len(edges) :
            /\ BothEndsName(nodes, edges[j])
            /\ Cardinality({k \in 1..j : BothEndsName(nodes, edges[k])}) = n]

LineJoins(line, parts, nodes, edge) ==
    /\ <<line.x1, line.y1>> = RightCentre(ShapeNamed(parts, nodes, edge.source))
    /\ <<line.x2, line.y2>> = LeftCentre(ShapeNamed(parts, nodes, edge.target))

\* C22: every line of a generated SVG starts at the right-centre of the shape
\* drawn for the source of its edge and ends at the left-centre of the shape
\* drawn for the target, also when the nodes omit x or y.
C22_LineJoinsDrawnShapes ==
    (WroteSvg /\ Succeeded)
    => \A n \in 1..Cardinality(Tagged(fs[call.path].parts, "line")) :
           LineJoins(NthTagged(fs[call.path].parts, {"line"}, n), fs[call.path].parts,
                     call.nodes, NthJoining(call.nodes, call.edges, n))

\* C23: diagram_write given arrays of nodes and edges and a path ending in
\* .excalidraw, .drawio, .xml or .svg answers success with node_count and
\* edge_count the numbers of nodes and edges given, and the file then holds
\* the generated document; given invalid JSON it answers an error and leaves
\* every file as it was.
C23_WriteReportsCounts ==
    [][(call'.op = "diagram_write" /\ call'.path.ext \in Supported)
       => IF call'.nodes = InvalidJson \/ call'.edges = InvalidJson
          THEN "error" \in DOMAIN ret' /\ fs' = fs
          ELSE /\ "success" \in DOMAIN ret'
               /\ ret'.node_count = Len(call'.nodes)
               /\ ret'.edge_count = Len(call'.edges)
               /\ fs'[call'.path] # NoFile
               /\ fs'[call'.path] = Generate(call'.path.ext, call'.nodes, call'.edges, "Page-1")]_vars

\* the two bindings of a connected arrow, as the claim states them
BoundBothEnds(arrow, edge) ==
    /\ arrow.startBinding # Null /\ arrow.endBinding # Null
    /\ arrow.startBinding.elementId = edge.source
    /\ arrow.endBinding.elementId = edge.target
    /\ arrow.startBinding.gap = 8 /\ arrow.endBinding.gap = 8
    /\ arrow.startBinding.focus \in {5, -5}
    /\ arrow.startBinding.focus = -arrow.endBinding.focus

\* a free-floating arrow: no binding, the position of the edge, and no
\* element lists it
FreeFloating(elements, arrow, edge) ==
    /\ arrow.startBinding = Null /\ arrow.endBinding = Null
    /\ arrow.x = Get(edge, "x", 0) /\ arrow.y = Get(edge, "y", 130)
    /\ \A m \in 1..Len(elements) :
           [type |-> "arrow", id |-> arrow.id] \notin Range(elements[m].boundElements)

\* C24: the arrow of an edge carries both bindings (elementId the source and
\* the target, gap 8, focus 0.5 in magnitude and opposite in sign) exactly
\* when both ends of the edge are ids of nodes; otherwise it carries none, it
\* stands at the position the edge supplies or at the default (0, 130), and
\* no element's boundElements lists it.
C24_BoundExactlyWhenResolved ==
    WroteExcalidraw
    => \A j \in 1..Len(call.edges) :
           /\ WithId(Written, call.edges[j].id) # {}
           /\ \A k \in WithId(Written, call.edges[j].id) :
                  IF Resolved(call.nodes, call.edges[j])
                  THEN BoundBothEnds(Written[k], call.edges[j])
                  ELSE FreeFloating(Written, Written[k], call.edges[j])

\* C24, reached: the arrow of an edge from a to a missing node zz that
\* supplies its position stands there without a binding, and the shape of a
\* lists no arrow.
C24_Witness ==
    /\ WroteExcalidraw
    /\ Len(call.nodes) = 1 /\ Len(call.edges) = 1
    /\ Get(call.edges[1], "source", None) = "a"
    /\ Get(call.edges[1], "target", None) = "zz"
    /\ \A k \in WithId(Written, "e1") :
           /\ Written[k].startBinding = Null /\ Written[k].endBinding = Null
           /\ Written[k].x = 5 /\ Written[k].y = 7
    /\ \A k \in WithId(Written, "a") : Written[k].boundElements = <<>>
    /\ WithId(Written, "a") # {}

\* C27: the arrow of an edge of curveStyle step is emitted with roundness
\* null, and an arrow bears roundness {type: 2} only when the curveStyle of
\* its edge is curved.
C27_StepArrowsSharp ==
    WroteExcalidraw
    => \A j \in 1..Len(call.edges) :
           \A k \in WithId(Written, call.edges[j].id) :
               /\ Get(call.edges[j], "curveStyle", "straight") = "step"
                  => Written[k].roundness = Null
               /\ Written[k].roundness # Null
                  => Get(call.edges[j], "curveStyle", "straight") = "curved"

\* C28: no element of the document _create_excalidraw_json returns lists the
\* same (type, id) twice in its boundElements, self-loops included.
C28_BoundElementsDistinct ==
    WroteExcalidraw
    => \A k \in 1..Len(Written) : NoRepeats(Written[k].boundElements)

\* the box a shape of the SVG covers
Extent(shape) ==
    IF shape.tag = "rect"
    THEN [left |-> shape.x, top |-> shape.y,
          right |-> shape.x + shape.width, bottom |-> shape.y + shape.height]
    ELSE IF shape.tag = "ellipse"
    THEN [left |-> shape.cx - shape.rx, top |-> shape.cy - shape.ry,
          right |-> shape.cx + shape.rx, bottom |-> shape.cy + shape.ry]
    ELSE [left |-> shape.points[4][1], top |-> shape.points[1][2],
          right |-> shape.points[2][1], bottom |-> shape.points[3][2]]

Padded(box, width, height) ==
    /\ box.left >= SvgPadding /\ box.top >= SvgPadding
    /\ box.right <= width - SvgPadding /\ box.bottom <= height - SvgPadding

\* C29: in a generated SVG the shape of every node lies inside the viewBox
\* with the padding of 50 on every side, also for nodes that omit x, y, width
\* or height; without nodes the viewport is 800 by 600.
C29_ShapesInsideViewBox ==
    (WroteSvg /\ Succeeded)
    => /\ \A k \in Tagged(fs[call.path].parts, "rect")
                   \cup Tagged(fs[call.path].parts, "ellipse")
                   \cup Tagged(fs[call.path].parts, "polygon") :
              Padded(Extent(fs[call.path].parts[k]),
                     fs[call.path].width, fs[call.path].height)
       /\ call.nodes = <<>>
          => fs[call.path].width = 800 /\ fs[call.path].height = 600

\* the geometry the claim states for the node of a cell: the attributes of
\* its geometry child, 0 for each that is absent
GeometryOrZero(cell) ==
    [f \in {"x", "y", "width", "height"} |->
        IF "geo" \in DOMAIN cell /\ f \in DOMAIN cell.geo.attrs
        THEN cell.geo.attrs[f] ELSE 0]

\* C30: every node the drawio parser returns carries a geometry of the four
\* fields x, y, width and height, each 0 when the geometry child lacks the
\* attribute and when the cell has no geometry child at all.
C30_GeometryComplete ==
    (ReadBareModel /\ IsDocument(ret))
    => \A n \in 1..Len(ret.diagrams[1].nodes) :
           /\ DOMAIN ret.diagrams[1].nodes[n].geometry = {"x", "y", "width", "height"}
           /\ ret.diagrams[1].nodes[n].geometry
                = GeometryOrZero(ElemAt(fs[call.path].cells,
                                        {i \in 1..Len(fs[call.path].cells) :
                                           NodeClass(fs[call.path].cells[i])}, n))

\* the path arguments of a call
PathArguments(c) ==
    {c[f] : f \in DOMAIN c \cap {"path", "output_path", "source", "target"}}

\* the directories, as a caller writes them, that lie outside PROJECT_DIR
OutsideProject == {"..", "out/../..", "/etc"}

\* C25: a call of any tool with a path argument that resolves outside the
\* project directory answers an error and leaves every file, every
\* directory, the temporary files and the child process as they were; no
\* file outside the project directory ever comes to exist.
C25_PathsConfined ==
    [][/\ (/\ ncalls' = ncalls + 1
           /\ \E p \in PathArguments(call') : p.dir \in OutsideProject)
          => /\ IsError(ret')
             /\ UNCHANGED <<fs, dirs, tmp, child>>
       /\ \A p \in DOMAIN fs' : p.dir = ".." => fs'[p] = NoFile]_vars

\* C25, reached: diagram_from_mermaid given a path that leaves the project
\* directory through a subdirectory has answered an error, and the project
\* directory holds the one file it held.
C25_Witness ==
    /\ call.op = "diagram_from_mermaid"
    /\ call.path.dir = "out/../.." /\ call.mermaid_code # ""
    /\ IsError(ret)
    /\ Cardinality({p \in DOMAIN fs : fs[p] # NoFile}) = 1
    /\ dirs = {"."} /\ tmp = {} /\ child.state = "none"

\* C26: when excalidraw_verify or diagram_from_mermaid returns, called with
\* no child running and no temporary file left from before, no child is
\* running and no temporary file exists.
C26_ChildGoneAtReturn ==
    [][(/\ ncalls' = ncalls + 1
        /\ call'.op \in {"excalidraw_verify", "diagram_from_mermaid"}
        /\ child.state # "running" /\ tmp = {})
       => (child'.state # "running" /\ tmp' = {})]_vars

====
